---- MODULE Spec2Model ----
(***************************************************************************)
(* A model of the Global Payments docs helper: the chat API route          *)
(* (app/api/chat/route.ts), the documentation agent (app/lib/agent.ts) and *)
(* the chat page (app/page.tsx, HomePage).                                 *)
(*                                                                         *)
(* Strings.  A JavaScript string is modelled by what the code reads of     *)
(* it: its words (the tokens the regular expressions look for), an amount  *)
(* of further text that matches no pattern (filler, in characters), and    *)
(* the whitespace around it (ws, in characters).  Words are separated by   *)
(* one space, except that the punctuation word "?" is attached to the      *)
(* word before it.  trim() removes the surrounding whitespace, length is   *)
(* counted in characters.                                                  *)
(***************************************************************************)
EXTENDS Integers, Sequences, FiniteSets, TLC

VARIABLES
    pc,             \* position of the sequential run of the function chain under study
    call,           \* its inputs; in SpecPage the environment of the page
    ret,            \* its intermediate and final results; in SpecPage the React state
    clock,          \* Date.now() of the server process, in milliseconds
    responseCache,  \* route.ts responseCache: cache key -> cached entry
    reqs            \* the chat requests in flight in the server process

vars == <<pc, call, ret, clock, responseCache, reqs>>

fnVars == <<pc, call, ret>>
serverVars == <<clock, responseCache, reqs>>

(***************************************************************************)
(* Bounds of the model                                                     *)
(***************************************************************************)
MaxHistory == 14        \* longest history a request carries in SpecContext
MaxQuestionWords == 3   \* most words of a question in SpecEffort
MaxEffortHistory == 5   \* longest history in SpecEffort
MaxCitations == 4       \* most file citations of one reply of the file search in SpecRank
MaxAgentCitations == 2  \* the same in SpecAgent
MaxRequests == 2        \* chat requests the server handles in Spec
MaxClock == 3600000     \* the clock stops advancing here in Spec
MaxIds == 9             \* ids (of messages and chats) the page creates in SpecPage
MaxChats == 2           \* chats the page holds at a time in SpecPage

(***************************************************************************)
(* Strings                                                                 *)
(***************************************************************************)
WordLen(w) ==
    CASE w = "?" -> 1
      [] w = "it" -> 2
      [] w = "and" -> 3
      [] w = "they" -> 4
      [] w = "first" -> 5
      [] w = "global" -> 6
      [] w = "realex" -> 6
      [] w = "Global" -> 6
      [] w = "Realex" -> 6
      [] w = "Payments" -> 8
      [] w = "Compare" -> 7
      [] w = "compare" -> 7
      [] w = "refunds" -> 7
      [] w = "payments" -> 8
      [] OTHER -> 4

\* toLowerCase of a word, as the /i flag of the patterns compares
Lower(w) ==
    CASE w = "Compare" -> "compare"
      [] w = "Global" -> "global"
      [] w = "Payments" -> "payments"
      [] w = "Realex" -> "realex"
      [] w = "Talk about that instead" -> "talk about that instead"
      [] OTHER -> w

RECURSIVE WordsLen(_)
WordsLen(ws) ==
    IF ws = <<>> THEN 0
    ELSE WordLen(Head(ws))
         + (IF Len(ws) > 1 /\ ws[2] # "?" THEN 1 ELSE 0)
         + WordsLen(Tail(ws))

Str(words, filler, ws) == [words |-> words, filler |-> filler, ws |-> ws]

EmptyStr == Str(<<>>, 0, 0)

\* String.prototype.trim
trim(s) == [s EXCEPT !.ws = 0]

\* String.prototype.length
length(s) ==
    s.ws + WordsLen(s.words) + s.filler
    + (IF s.words # <<>> /\ s.filler > 0 THEN 1 ELSE 0)

\* truthiness of a string: the empty string is falsy
Truthy(s) == length(s) > 0

(***************************************************************************)
(* route.ts: constants                                                     *)
(***************************************************************************)
CACHE_TTL == 3600000
MAX_CONTEXT_MESSAGES == 12
MAX_CONTEXT_CHARS == 8000

(***************************************************************************)
(* route.ts: normalizeConversationMessages                                 *)
(* A raw message of the request body is [obj, role, isStr, content]: obj   *)
(* is FALSE for null or a non-object, isStr is FALSE when content is not   *)
(* a string.                                                               *)
(***************************************************************************)
RawMsg(role, content) == [obj |-> TRUE, role |-> role, isStr |-> TRUE, content |-> content]

Msg(role, content) == [role |-> role, content |-> content]

\* the .map callback: TRUE when it returns a message, FALSE when it returns null
keepsMessage(message) ==
    /\ message.obj
    /\ message.role \in {"user", "assistant"}
    /\ message.isStr
    /\ Truthy(trim(message.content))

RECURSIVE normalizeConversationMessages(_)
normalizeConversationMessages(messages) ==
    IF messages = <<>> THEN <<>>
    ELSE LET m == Head(messages)
             rest == normalizeConversationMessages(Tail(messages))
         IN IF keepsMessage(m)
            THEN <<Msg(m.role, trim(m.content))>> \o rest
            ELSE rest

(***************************************************************************)
(* route.ts: buildContextWindow                                            *)
(***************************************************************************)
Reverse(s) == [i \in 1..Len(s) |-> s[Len(s) + 1 - i]]

latestAlreadyIncluded(conversation, trimmedLatestMessage) ==
    /\ Len(conversation) > 0
    /\ conversation[Len(conversation)].role = "user"
    /\ conversation[Len(conversation)].content = trimmedLatestMessage

\* lines 69-83: the history, plus the latest user message unless it is already its last message
conversationOf(history, latestUserMessage) ==
    LET trimmedLatestMessage == trim(latestUserMessage)
    IN IF ~latestAlreadyIncluded(history, trimmedLatestMessage) /\ Truthy(trimmedLatestMessage)
       THEN Append(history, Msg("user", trimmedLatestMessage))
       ELSE history

reachedMessageLimit(selectedMessages) ==
    Len(selectedMessages) >= MAX_CONTEXT_MESSAGES

\* a fill that never looks at the character budget
wouldExceedCharLimit_Never(selectedMessages, totalChars, currentMessageChars) ==
    FALSE

wouldExceedCharLimit(selectedMessages, totalChars, currentMessageChars) ==
    Len(selectedMessages) > 0 /\ totalChars + currentMessageChars > MAX_CONTEXT_CHARS

\* a fill that skips a message that does not fit and goes on with the older ones
RECURSIVE backwardFill_Skip(_, _, _, _)
backwardFill_Skip(conversation, i, selectedMessages, totalChars) ==
    IF i < 1
    THEN [selectedMessages |-> selectedMessages, totalChars |-> totalChars]
    ELSE LET currentMessage == conversation[i]
             currentMessageChars == length(currentMessage.content)
         IN IF \/ reachedMessageLimit(selectedMessages)
               \/ wouldExceedCharLimit(selectedMessages, totalChars, currentMessageChars)
            THEN backwardFill_Skip(conversation, i - 1, selectedMessages, totalChars)
            ELSE backwardFill_Skip(conversation, i - 1,
                                   Append(selectedMessages, currentMessage),
                                   totalChars + currentMessageChars)

\* lines 85-101: the loop, from index i (1-based) down; selectedMessages is newest first
RECURSIVE backwardFill(_, _, _, _)
backwardFill(conversation, i, selectedMessages, totalChars) ==
    IF i < 1
    THEN [selectedMessages |-> selectedMessages, totalChars |-> totalChars]
    ELSE LET currentMessage == conversation[i]
             currentMessageChars == length(currentMessage.content)
         IN IF \/ reachedMessageLimit(selectedMessages)
               \/ wouldExceedCharLimit(selectedMessages, totalChars, currentMessageChars)
            THEN [selectedMessages |-> selectedMessages, totalChars |-> totalChars]
            ELSE backwardFill(conversation, i - 1,
                              Append(selectedMessages, currentMessage),
                              totalChars + currentMessageChars)

buildContextWindow(history, latestUserMessage) ==
    LET conversation == conversationOf(history, latestUserMessage)
        trimmedLatestMessage == trim(latestUserMessage)
        filled == backwardFill(conversation, Len(conversation), <<>>, 0)
        fallback == filled.selectedMessages = <<>> /\ Truthy(trimmedLatestMessage)
        selectedMessages ==
            IF fallback THEN <<Msg("user", trimmedLatestMessage)>> ELSE filled.selectedMessages
        totalChars ==
            IF fallback THEN length(trimmedLatestMessage) ELSE filled.totalChars
    IN [messages |-> Reverse(selectedMessages),
        totalMessages |-> Len(conversation),
        totalChars |-> totalChars,
        truncated |-> Len(selectedMessages) < Len(conversation)]

\* line 126: the request is rejected with status 400
invalidMessage(message) ==
    \/ ~message.isStr
    \/ ~Truthy(message.content)
    \/ ~Truthy(trim(message.content))

(***************************************************************************)
(* agent.ts: the regular expressions, as tests on the words of a string.   *)
(* All of them carry the /i flag and none the /g flag, so test() has no    *)
(* state.  Of each alternation the single-word alternatives are modelled,  *)
(* and the phrases of DOCS_CONTEXT_ESCAPE_PATTERN are words of their own.  *)
(***************************************************************************)
HasWord(s, set) == \E i \in 1..Len(s.words) : Lower(s.words[i]) \in set

\* line 71-72
COMPARISON_OR_TRADEOFF_PATTERN(s) ==
    HasWord(s, {"compare", "comparison", "difference", "different", "vs", "versus",
                "better", "best", "tradeoff", "trade-off", "advantage", "advantages",
                "disadvantage", "disadvantages"})

\* line 73-74: a "?", then at least one character that is no "?", then a "?"; or an ordinal
MULTI_PART_PATTERN(s) ==
    \/ \E i, j \in 1..Len(s.words) :
          /\ i + 1 < j
          /\ s.words[i] = "?"
          /\ s.words[j] = "?"
          /\ \A k \in (i + 1)..(j - 1) : s.words[k] # "?"
    \/ HasWord(s, {"first", "second", "third"})

\* line 62-63: anchored at the start of the string, or a pronoun anywhere
FOLLOW_UP_INDICATOR_PATTERN(s) ==
    \/ /\ s.ws = 0
       /\ s.words # <<>>
       /\ Lower(s.words[1]) \in {"and", "also", "that", "it", "this"}
    \/ HasWord(s, {"it", "that", "this", "their", "those", "these"})

\* line 75-76
AMBIGUOUS_FOLLOW_UP_PRONOUN_PATTERN(s) ==
    HasWord(s, {"it", "this", "that", "they", "them", "their", "those", "these",
                "one", "ones"})

\* line 67
REALEX_PATTERN(s) == HasWord(s, {"realex", "realexpayments"})

\* line 68
GLOBAL_PAYMENTS_PATTERN(s) ==
    \/ \E i \in 1..(Len(s.words) - 1) :
          Lower(s.words[i]) = "global" /\ Lower(s.words[i + 1]) = "payments"
    \/ HasWord(s, {"globalpayments", "global-payments", "global_payments"})

\* line 69-70
DOCS_CONTEXT_ESCAPE_PATTERN(s) ==
    \/ HasWord(s, {"say so and i can switch", "talk about that instead",
                   "general or fun/abstract sense", "not related to global payments"})
    \/ \E i \in 1..Len(s.words) :
          /\ Lower(s.words[i]) \in {"i can switch out of", "switch out of"}
          /\ \/ /\ i + 1 <= Len(s.words)
                /\ Lower(s.words[i + 1]) = "documentation context"
             \/ /\ i + 2 <= Len(s.words)
                /\ Lower(s.words[i + 1]) = "the"
                /\ Lower(s.words[i + 2]) = "documentation context"

\* line 58-61: the fixed replies
DOCS_ONLY_NO_MATCH_MESSAGE == Str(<<"I couldn't verify that in the Global Payments documentation.">>, 0, 0)
DOCS_ONLY_UNAVAILABLE_MESSAGE == Str(<<"I couldn't access the Global Payments documentation right now.">>, 0, 0)
\* line 483
GENERIC_ERROR_MESSAGE == Str(<<"I'm sorry, I encountered an error while processing your request.">>, 0, 0)

(***************************************************************************)
(* agent.ts: enforceDocsOnlyBoundary                                       *)
(***************************************************************************)
\* a boundary that only replaces blank output
enforceDocsOnlyBoundary_BlankOnly(responseText) ==
    IF ~Truthy(trim(responseText)) THEN DOCS_ONLY_NO_MATCH_MESSAGE ELSE responseText

enforceDocsOnlyBoundary(responseText) ==
    IF ~Truthy(trim(responseText)) THEN DOCS_ONLY_NO_MATCH_MESSAGE
    ELSE IF DOCS_CONTEXT_ESCAPE_PATTERN(responseText) THEN DOCS_ONLY_NO_MATCH_MESSAGE
    ELSE responseText

\* line 98-100
referencesRealex(text) == REALEX_PATTERN(text)

(***************************************************************************)
(* agent.ts: determineReasoningEffort                                      *)
(***************************************************************************)
\* line 233-235
looksLikeFollowUp(trimmedInput) ==
    length(trimmedInput) <= 40 \/ FOLLOW_UP_INDICATOR_PATTERN(trimmedInput)

\* line 236: history.filter(user).slice(-4).length
recentUserTurns(history) ==
    LET users == Cardinality({i \in 1..Len(history) : history[i].role = "user"})
    IN IF users > 4 THEN 4 ELSE users

\* a follow-up rule that is content with a single user turn
followUpAmbiguity_OneTurn(trimmedInput, history) ==
    /\ looksLikeFollowUp(trimmedInput)
    /\ AMBIGUOUS_FOLLOW_UP_PRONOUN_PATTERN(trimmedInput)
    /\ recentUserTurns(history) >= 1

\* line 238-244
followUpAmbiguity(trimmedInput, history) ==
    /\ looksLikeFollowUp(trimmedInput)
    /\ AMBIGUOUS_FOLLOW_UP_PRONOUN_PATTERN(trimmedInput)
    /\ recentUserTurns(history) >= 2

effortReasons(trimmedInput, history) ==
    (IF COMPARISON_OR_TRADEOFF_PATTERN(trimmedInput) THEN <<"comparison_or_tradeoff">> ELSE <<>>)
    \o (IF MULTI_PART_PATTERN(trimmedInput) THEN <<"multi_part_question">> ELSE <<>>)
    \o (IF followUpAmbiguity(trimmedInput, history) THEN <<"follow_up_ambiguity">> ELSE <<>>)

determineReasoningEffort(input, history) ==
    LET trimmedInput == trim(input)
        reasons == effortReasons(trimmedInput, history)
    IN IF ~Truthy(trimmedInput)
       THEN [primaryEffort |-> "low", retryEfforts |-> <<"low", "medium">>, reasons |-> <<>>]
       ELSE IF Len(reasons) > 0
       THEN [primaryEffort |-> "medium", retryEfforts |-> <<"medium">>, reasons |-> reasons]
       ELSE [primaryEffort |-> "low", retryEfforts |-> <<"low", "medium">>, reasons |-> reasons]

(***************************************************************************)
(* agent.ts: searchDocumentation.  The reply of the hosted file search is  *)
(* [throws, items, legacy, output_text]: items are the content items of    *)
(* its message outputs, each [text, citations] with one source per         *)
(* file_citation annotation (the empty string when the citation has        *)
(* neither filename nor file_id); legacy are the file citations of         *)
(* tool_use_outputs, each [text, source].  Scores are in units of 1/100000.*)
(***************************************************************************)
MIN_CONTEXT_SCORE == 55000

NoError == [type |-> "", message |-> EmptyStr]

NotFoundMessage == Str(<<"The information you requested could not be found in our knowledge base.">>, 0, 0)
NoMatchesMessage == Str(<<"The search didn't find relevant documents in the knowledge base.">>, 0, 0)

DefaultSource == Str(<<"Global", "Payments", "documentation">>, 0, 0)

SearchResult(content, source, score) == [content |-> content, source |-> source, score |-> score]

\* line 582-589
hasDocIndicators(outputText) ==
    \/ HasWord(outputText, {"documentation excerpt", "This is supported in the documentation"})
    \/ Cardinality({i \in 1..Len(outputText.words) : outputText.words[i] \in {"10001", "10002"}}) >= 2

\* line 526-554: the first content item that carries file citations, 0 when there is none
FirstCitedItem(items) ==
    IF \E i \in 1..Len(items) : items[i].citations # <<>>
    THEN CHOOSE i \in 1..Len(items) :
            /\ items[i].citations # <<>>
            /\ \A j \in 1..(i - 1) : items[j].citations = <<>>
    ELSE 0

\* a search that hands on the text without indicators as a result, together with its error
searchDocumentation_ResultWithError(response) ==
    IF response.throws
    THEN [results |-> <<>>, error |-> [type |-> "VectorSearchError", message |-> NotFoundMessage]]
    ELSE IF Truthy(trim(response.output_text))
    THEN [results |-> <<SearchResult(trim(response.output_text), DefaultSource, 90000)>>,
          error |-> IF hasDocIndicators(trim(response.output_text))
                    THEN NoError
                    ELSE [type |-> "NoDocumentMatches", message |-> NoMatchesMessage]]
    ELSE [results |-> <<>>, error |-> [type |-> "NoResultsError", message |-> NotFoundMessage]]

\* line 492-652
searchDocumentation(response) ==
    IF response.throws
    THEN [results |-> <<>>, error |-> [type |-> "VectorSearchError", message |-> NotFoundMessage]]
    ELSE IF FirstCitedItem(response.items) # 0
    THEN LET contentItem == response.items[FirstCitedItem(response.items)]
         IN [results |->
                [k \in 1..Len(contentItem.citations) |->
                    SearchResult(contentItem.text,
                                 IF Truthy(contentItem.citations[k])
                                 THEN contentItem.citations[k] ELSE DefaultSource,
                                 95000)],
             error |-> NoError]
    ELSE IF response.legacy # <<>>
    THEN [results |->
             [k \in 1..Len(response.legacy) |->
                 SearchResult(response.legacy[k].text,
                              IF Truthy(response.legacy[k].source)
                              THEN response.legacy[k].source ELSE DefaultSource,
                              95000)],
          error |-> NoError]
    ELSE IF Truthy(trim(response.output_text))
    THEN IF hasDocIndicators(trim(response.output_text))
         THEN [results |-> <<SearchResult(trim(response.output_text), DefaultSource, 90000)>>,
               error |-> NoError]
         ELSE [results |-> <<>>,
               error |-> [type |-> "NoDocumentMatches", message |-> NoMatchesMessage]]
    ELSE [results |-> <<>>, error |-> [type |-> "NoResultsError", message |-> NotFoundMessage]]

(***************************************************************************)
(* agent.ts: re-ranking and selection of the context (lines 288-341)       *)
(***************************************************************************)
\* line 103: `${result.source}\n${result.content}`; text of the source that matches no
\* pattern stands between its words and the words of the content
haystackOf(result) ==
    Str(result.source.words
        \o (IF result.source.filler > 0 THEN <<"...">> ELSE <<>>)
        \o result.content.words,
        result.content.filler, 0)

classifyResultBrandAffinity(result) ==
    [mentionsRealex |-> REALEX_PATTERN(haystackOf(result)),
     mentionsGlobalPayments |-> GLOBAL_PAYMENTS_PATTERN(haystackOf(result))]

\* x * num / den on scores
Times(x, num, den) == (x * num) \div den

\* a re-ranking that penalises every result that mentions Realex
adjustedScoreOf_PenaliseAllRealex(score, mentionsRealex, mentionsGlobalPayments) ==
    LET boosted == IF mentionsGlobalPayments THEN Times(score, 22, 10) ELSE score
    IN IF mentionsRealex THEN Times(boosted, 15, 100) ELSE boosted

\* a re-ranking without the boost of Global Payments content
adjustedScoreOf_NoBoost(score, mentionsRealex, mentionsGlobalPayments) ==
    LET downRanked == IF mentionsRealex /\ ~mentionsGlobalPayments
                      THEN Times(score, 15, 100) ELSE score
    IN IF mentionsRealex /\ mentionsGlobalPayments THEN Times(downRanked, 8, 10) ELSE downRanked

\* line 293-308
adjustedScoreOf(score, mentionsRealex, mentionsGlobalPayments) ==
    LET boosted == IF mentionsGlobalPayments THEN Times(score, 22, 10) ELSE score
        downRanked == IF mentionsRealex /\ ~mentionsGlobalPayments
                      THEN Times(boosted, 15, 100) ELSE boosted
    IN IF mentionsRealex /\ mentionsGlobalPayments THEN Times(downRanked, 8, 10) ELSE downRanked

\* line 291-316: the .map callback
rankCandidate(result) ==
    LET affinity == classifyResultBrandAffinity(result)
    IN [content |-> result.content,
        source |-> result.source,
        score |-> result.score,
        adjustedScore |-> adjustedScoreOf(result.score, affinity.mentionsRealex,
                                          affinity.mentionsGlobalPayments),
        mentionsRealex |-> affinity.mentionsRealex,
        mentionsGlobalPayments |-> affinity.mentionsGlobalPayments]

\* insertion of x into a list sorted by descending adjustedScore, after its equals
RECURSIVE InsertByScore(_, _)
InsertByScore(sorted, x) ==
    IF sorted = <<>> THEN <<x>>
    ELSE IF Head(sorted).adjustedScore >= x.adjustedScore
         THEN <<Head(sorted)>> \o InsertByScore(Tail(sorted), x)
         ELSE <<x>> \o sorted

\* line 317: Array.prototype.sort((a, b) => b.adjustedScore - a.adjustedScore), a stable sort
RECURSIVE SortByScore(_)
SortByScore(list) ==
    IF list = <<>> THEN <<>>
    ELSE InsertByScore(SortByScore(SubSeq(list, 1, Len(list) - 1)), list[Len(list)])

\* line 318
aboveThreshold(candidate) == candidate.adjustedScore > MIN_CONTEXT_SCORE

\* line 290-316: the results with their adjusted scores, in the order of the search
scoredCandidatesOf(results) == [k \in 1..Len(results) |-> rankCandidate(results[k])]

\* line 290-318
rankedCandidatesOf(results) ==
    SelectSeq(SortByScore(scoredCandidatesOf(results)), aboveThreshold)

\* line 321-327
preferredCandidatesOf(rankedCandidates, userAskedForRealex) ==
    LET keep(candidate) ==
            userAskedForRealex \/ ~candidate.mentionsRealex \/ candidate.mentionsGlobalPayments
    IN SelectSeq(rankedCandidates, keep)

\* a selection that keeps the last three candidates of the pool
selectedCandidatesOf_LastThree(rankedCandidates, userAskedForRealex) ==
    LET preferredCandidates == preferredCandidatesOf(rankedCandidates, userAskedForRealex)
        pool == IF Len(preferredCandidates) > 0 THEN preferredCandidates
                ELSE IF userAskedForRealex THEN rankedCandidates
                ELSE <<>>
    IN SubSeq(pool, IF Len(pool) < 3 THEN 1 ELSE Len(pool) - 2, Len(pool))

\* line 329-335
selectedCandidatesOf(rankedCandidates, userAskedForRealex) ==
    LET preferredCandidates == preferredCandidatesOf(rankedCandidates, userAskedForRealex)
        pool == IF Len(preferredCandidates) > 0 THEN preferredCandidates
                ELSE IF userAskedForRealex THEN rankedCandidates
                ELSE <<>>
    IN SubSeq(pool, 1, IF Len(pool) < 3 THEN Len(pool) ELSE 3)

\* line 337-341
highConfidenceResultsOf(selectedCandidates) ==
    [k \in 1..Len(selectedCandidates) |->
        SearchResult(selectedCandidates[k].content, selectedCandidates[k].source,
                     selectedCandidates[k].score)]

(***************************************************************************)
(* agent.ts: runGlobalPaymentsDocsAgent.  One run is a record that moves   *)
(* from await to await: "search" while searchDocumentation is awaited,     *)
(* "generate" while a generation call (openai.responses.create, line 413)  *)
(* is awaited, "returned" when the promise has resolved.  generationCalls  *)
(* lists the generation calls made so far, each with its effort and its    *)
(* outcome ("pending", "threw", "no_match", "answer").                     *)
(***************************************************************************)
NoResult ==
    [response |-> EmptyStr, hasError |-> FALSE, errorCode |-> "",
     hasMetadata |-> FALSE, vectorSearchError |-> NoError, fullResponse |-> "absent"]

NoSearch == [results |-> <<>>, error |-> NoError]

\* line 272-275: the run up to the await of searchDocumentation
agentStart(input, conversationHistory) ==
    [pc |-> "search",
     input |-> input,
     conversationHistory |-> conversationHistory,
     docSearchResponse |-> NoSearch,
     highConfidenceResults |-> <<>>,
     retryEfforts |-> <<>>,
     attemptIndex |-> 0,
     lastModelError |-> "",
     generationCalls |-> <<>>,
     outputText |-> EmptyStr,
     attemptText |-> EmptyStr,
     result |-> NoResult]

AgentIdle == [agentStart(EmptyStr, <<>>) EXCEPT !.pc = "idle"]

\* a catch block that returns the generic reply without the error field
agentCatch_NoErrorField(a, errorCode) ==
    [a EXCEPT !.pc = "returned",
              !.result = [NoResult EXCEPT !.response = GENERIC_ERROR_MESSAGE]]

\* line 473-486: the outer catch
agentCatch(a, errorCode) ==
    [a EXCEPT !.pc = "returned",
              !.result = [NoResult EXCEPT !.response = GENERIC_ERROR_MESSAGE,
                                          !.hasError = TRUE,
                                          !.errorCode = errorCode]]

\* line 398-413: the head of the loop: the next generation call, or the end of the loop
\* without a response (line 452-454), which throws
agentNextAttempt(a) ==
    IF a.attemptIndex < Len(a.retryEfforts)
    THEN [a EXCEPT !.pc = "generate",
                   !.generationCalls =
                       Append(@, [effort |-> a.retryEfforts[a.attemptIndex + 1],
                                  outcome |-> "pending"])]
    ELSE agentCatch(a, IF a.lastModelError # "" THEN a.lastModelError
                       ELSE "Model response was empty after retries.")

\* line 357-371: no context was selected
agentNoContext(a, docSearchResponse) ==
    [a EXCEPT !.pc = "returned",
              !.docSearchResponse = docSearchResponse,
              !.result = [NoResult EXCEPT
                  !.response = IF docSearchResponse.error.type = "VectorSearchError"
                               THEN DOCS_ONLY_UNAVAILABLE_MESSAGE
                               ELSE DOCS_ONLY_NO_MATCH_MESSAGE,
                  !.hasMetadata = TRUE,
                  !.vectorSearchError = docSearchResponse.error,
                  !.fullResponse = "null"]]

\* a run that generates also when no context was selected
agentAfterSearch_AlwaysGenerate(a, response) ==
    LET docSearchResponse == searchDocumentation(response)
        ranked == IF Len(docSearchResponse.results) > 0
                  THEN rankedCandidatesOf(docSearchResponse.results) ELSE <<>>
        selected == selectedCandidatesOf(ranked, referencesRealex(a.input))
    IN agentNextAttempt(
            [a EXCEPT !.docSearchResponse = docSearchResponse,
                      !.highConfidenceResults = highConfidenceResultsOf(selected),
                      !.retryEfforts =
                          determineReasoningEffort(a.input, a.conversationHistory).retryEfforts,
                      !.attemptIndex = 0])

\* line 275-413: from the reply of the file search to the first generation call
agentAfterSearch(a, response) ==
    LET docSearchResponse == searchDocumentation(response)
        ranked == IF Len(docSearchResponse.results) > 0
                  THEN rankedCandidatesOf(docSearchResponse.results) ELSE <<>>
        selected == selectedCandidatesOf(ranked, referencesRealex(a.input))
        highConfidenceResults == highConfidenceResultsOf(selected)
    IN IF Len(highConfidenceResults) = 0
       THEN agentNoContext(a, docSearchResponse)
       ELSE agentNextAttempt(
                [a EXCEPT !.docSearchResponse = docSearchResponse,
                          !.highConfidenceResults = highConfidenceResults,
                          !.retryEfforts =
                              determineReasoningEffort(a.input, a.conversationHistory).retryEfforts,
                          !.attemptIndex = 0])

\* the outcome of the pending generation call is recorded
WithOutcome(a, outcome) ==
    [a EXCEPT !.generationCalls[Len(a.generationCalls)].outcome = outcome]

\* a retry rule that escalates after any low-effort reply, whatever its text
shouldRetryWithMedium_AnyText(a, attemptText) ==
    /\ a.attemptIndex = 0
    /\ a.retryEfforts[a.attemptIndex + 1] = "low"
    /\ Len(a.highConfidenceResults) > 0

\* line 422-426
shouldRetryWithMedium(a, attemptText) ==
    /\ a.attemptIndex = 0
    /\ a.retryEfforts[a.attemptIndex + 1] = "low"
    /\ attemptText = DOCS_ONLY_NO_MATCH_MESSAGE
    /\ Len(a.highConfidenceResults) > 0

\* line 438-441
canRetryWithMedium(a) ==
    /\ a.attemptIndex = 0
    /\ a.retryEfforts[a.attemptIndex + 1] = "low"
    /\ Len(a.retryEfforts) > 1

\* line 459-461: the note on a failed search, appended unless the text holds its message
withSearchNote(responseText, error) ==
    IF error.type # "" /\ ~(\E i \in 1..Len(responseText.words) :
                                responseText.words[i] = error.message.words[1])
    THEN [responseText EXCEPT !.words = @ \o <<"(Note:">> \o error.message.words \o <<")">>]
    ELSE responseText

\* line 456-472: the reply built from the text of the model
agentReturn(a, attemptText) ==
    [a EXCEPT !.pc = "returned",
              !.attemptText = attemptText,
              !.result = [NoResult EXCEPT
                  !.response = withSearchNote(attemptText, a.docSearchResponse.error),
                  !.hasMetadata = TRUE,
                  !.vectorSearchError = a.docSearchResponse.error,
                  !.fullResponse = "object"]]

\* line 413-454: the generation call resolved with output_text, or rejected with a code
agentAfterGeneration(a, outcome) ==
    IF ~outcome.throws
    THEN LET attemptText == enforceDocsOnlyBoundary(outcome.output_text)
             kind == IF attemptText = DOCS_ONLY_NO_MATCH_MESSAGE THEN "no_match" ELSE "answer"
         IN IF shouldRetryWithMedium(a, attemptText)
            THEN agentNextAttempt([WithOutcome(a, kind) EXCEPT !.attemptIndex = @ + 1,
                                                               !.outputText = outcome.output_text,
                                                               !.attemptText = attemptText])
            ELSE agentReturn([WithOutcome(a, kind) EXCEPT !.outputText = outcome.output_text],
                             attemptText)
    ELSE IF canRetryWithMedium(a)
         THEN agentNextAttempt([WithOutcome(a, "threw") EXCEPT !.attemptIndex = @ + 1,
                                                               !.lastModelError = outcome.code])
         ELSE agentCatch([WithOutcome(a, "threw") EXCEPT !.lastModelError = outcome.code],
                         outcome.code)

(***************************************************************************)
(* SpecContext: the head of POST run on one request body, step by step:    *)
(* validation of the message (line 126), normalizeConversationMessages     *)
(* (line 134), buildContextWindow (line 135).                              *)
(***************************************************************************)
NoWindow == [messages |-> <<>>, totalMessages |-> 0, totalChars |-> 0, truncated |-> FALSE]

ServerIdle ==
    /\ clock = 0
    /\ responseCache = <<>>
    /\ reqs = <<>>

qRefunds == Str(<<"refunds">>, 0, 0)                 \* 7 characters
qRefundsPadded == Str(<<"refunds">>, 0, 2)           \* the same with whitespace around it
aMedium == Str(<<"payments">>, 2691, 0)              \* 2700 characters
qExact == Str(<<"it">>, 7997, 0)                     \* 8000 characters
qHuge == Str(<<"it">>, 7998, 0)                      \* 8001 characters
blankStr == Str(<<>>, 0, 3)                          \* whitespace only

ContextItems ==
    { RawMsg("user", qRefunds),
      RawMsg("user", qRefundsPadded),
      RawMsg("assistant", aMedium),
      RawMsg("user", qExact),
      RawMsg("system", qRefunds),
      RawMsg("assistant", blankStr),
      [obj |-> FALSE, role |-> "", isStr |-> FALSE, content |-> EmptyStr],
      [obj |-> TRUE, role |-> "user", isStr |-> FALSE, content |-> EmptyStr] }

\* the history of n messages that repeats a, b, c
PeriodicHistory(n, a, b, c) ==
    [i \in 1..n |-> CASE i % 3 = 1 -> a [] i % 3 = 2 -> b [] OTHER -> c]

ContextHistories ==
    { PeriodicHistory(n, a, b, c) : n \in 0..MaxHistory, a \in ContextItems,
                                    b \in ContextItems, c \in ContextItems }

ContextMessages ==
    { [isStr |-> TRUE, content |-> qRefunds],
      [isStr |-> TRUE, content |-> qRefundsPadded],
      [isStr |-> TRUE, content |-> qExact],
      [isStr |-> TRUE, content |-> qHuge],
      [isStr |-> TRUE, content |-> blankStr],
      [isStr |-> FALSE, content |-> EmptyStr] }

ContextInit ==
    /\ pc = "received"
    /\ call \in [messages : ContextHistories, message : ContextMessages]
    /\ ret = [history |-> <<>>, window |-> NoWindow]
    /\ ServerIdle

\* line 126-131
CtxReject ==
    /\ pc = "received"
    /\ invalidMessage(call.message)
    /\ pc' = "rejected"
    /\ UNCHANGED <<call, ret, serverVars>>

\* line 133-134
CtxNormalize ==
    /\ pc = "received"
    /\ ~invalidMessage(call.message)
    /\ pc' = "normalized"
    /\ ret' = [ret EXCEPT !.history = normalizeConversationMessages(call.messages)]
    /\ UNCHANGED <<call, serverVars>>

\* line 135
CtxBuild ==
    /\ pc = "normalized"
    /\ pc' = "built"
    /\ ret' = [ret EXCEPT !.window = buildContextWindow(ret.history, trim(call.message.content))]
    /\ UNCHANGED <<call, serverVars>>

ContextNext == CtxReject \/ CtxNormalize \/ CtxBuild

SpecContext == ContextInit /\ [][ContextNext]_vars

RECURSIVE SumChars(_)
SumChars(messages) ==
    IF messages = <<>> THEN 0
    ELSE length(Head(messages).content) + SumChars(Tail(messages))

CtxWindow == ret.window.messages

CtxLatest == Msg("user", trim(call.message.content))

(***************************************************************************)
(* C1 (as stated): for every chat request handled by POST the context      *)
(* window holds at most MAX_CONTEXT_MESSAGES messages and at most          *)
(* MAX_CONTEXT_CHARS characters in total, whatever the length of the       *)
(* history and of the latest user message.                                 *)
(***************************************************************************)
C1_WindowFitsBudget ==
    pc = "built" =>
        /\ Len(CtxWindow) <= MAX_CONTEXT_MESSAGES
        /\ SumChars(CtxWindow) <= MAX_CONTEXT_CHARS

(***************************************************************************)
(* C1 (amended): the context window holds at most MAX_CONTEXT_MESSAGES     *)
(* messages, and its total character count is at most MAX_CONTEXT_CHARS    *)
(* unless the window is the latest user message alone, which is always     *)
(* kept, also when it is longer than MAX_CONTEXT_CHARS; totalChars is the  *)
(* character count of the window.                                          *)
(***************************************************************************)
C1_WindowFitsBudgetButLatest ==
    pc = "built" =>
        /\ Len(CtxWindow) <= MAX_CONTEXT_MESSAGES
        /\ ret.window.totalChars = SumChars(CtxWindow)
        /\ \/ SumChars(CtxWindow) <= MAX_CONTEXT_CHARS
           \/ /\ CtxWindow = <<CtxLatest>>
              /\ length(CtxLatest.content) > MAX_CONTEXT_CHARS

\* a window cut by the character budget: more than one message kept, fewer than the
\* message limit, and older messages left out
C1_Witness ==
    /\ pc = "built"
    /\ ret.window.truncated
    /\ Len(CtxWindow) > 1
    /\ Len(CtxWindow) < MAX_CONTEXT_MESSAGES
    /\ SumChars(CtxWindow) > MAX_CONTEXT_CHARS - 2700

(***************************************************************************)
(* C2: buildContextWindow returns a contiguous suffix of the conversation  *)
(* (the normalized history, plus the latest user message appended only     *)
(* when the history does not already end with that same user message), in  *)
(* oldest-to-newest order; its last element is the latest user message;    *)
(* the fill stops at the first message that does not fit; truncated is     *)
(* true exactly when fewer messages are kept than the conversation holds.  *)
(***************************************************************************)
C2_WindowIsLatestSuffix ==
    pc = "built" =>
        LET h == ret.history
            conv == IF Len(h) > 0 /\ h[Len(h)] = CtxLatest THEN h ELSE Append(h, CtxLatest)
            n == Len(conv)
            k == Len(CtxWindow)
        IN /\ ret.window.totalMessages = n
           /\ 1 <= k /\ k <= n
           /\ \A i \in 1..k : CtxWindow[i] = conv[n - k + i]
           /\ CtxWindow[k] = CtxLatest
           /\ ret.window.truncated <=> (k < n)
           /\ k < n =>
                \/ k >= MAX_CONTEXT_MESSAGES
                \/ SumChars(CtxWindow) + length(conv[n - k].content) > MAX_CONTEXT_CHARS

\* a truncated window of several messages for a history that already ends with the
\* latest user message (sent with whitespace around it)
C2_Witness ==
    /\ pc = "built"
    /\ ret.window.truncated
    /\ Len(CtxWindow) > 1
    /\ ret.window.totalMessages = Len(ret.history)
    /\ call.message.content.ws > 0

\* README.md line 116-117: the documented defaults of CHAT_CONTEXT_MAX_MESSAGES and
\* CHAT_CONTEXT_MAX_CHARS
DOCUMENTED_MAX_MESSAGES == 40
DOCUMENTED_MAX_CHARS == 32000

(***************************************************************************)
(* C13: the context limits default to 40 messages and 32000 characters:    *)
(* a conversation (the normalized history with the latest user message)    *)
(* of at most 40 messages totalling at most 32000 characters is passed to  *)
(* the agent whole and reported as not truncated.                          *)
(***************************************************************************)
C13_DocumentedDefaultLimits ==
    pc = "built" =>
        LET conv == conversationOf(ret.history, trim(call.message.content))
        IN (Len(conv) <= DOCUMENTED_MAX_MESSAGES /\ SumChars(conv) <= DOCUMENTED_MAX_CHARS) =>
              /\ CtxWindow = conv
              /\ ~ret.window.truncated
              /\ ret.window.totalMessages = Len(CtxWindow)

(***************************************************************************)
(* SpecEffort: determineReasoningEffort applied to a question and a        *)
(* history.                                                                *)
(***************************************************************************)
EffortVocabulary == {"compare", "Compare", "first", "?", "it", "they", "and", "refunds"}

SeqsUpTo(S, n) == UNION { [1..k -> S] : k \in 0..n }

EffortQuestions ==
    { Str(w, f, ws) : w \in SeqsUpTo(EffortVocabulary, MaxQuestionWords),
                      f \in {0, 40}, ws \in {0, 2} }

\* n messages, user and assistant in turn
AlternatingHistory(n, firstRole) ==
    [i \in 1..n |->
        Msg(IF (i % 2 = 1) = (firstRole = "user") THEN "user" ELSE "assistant", qRefunds)]

EffortHistories ==
    { AlternatingHistory(n, r) : n \in 0..MaxEffortHistory, r \in {"user", "assistant"} }

EffortInit ==
    /\ pc = "asked"
    /\ call \in [input : EffortQuestions, history : EffortHistories]
    /\ ret = [primaryEffort |-> "", retryEfforts |-> <<>>, reasons |-> <<>>]
    /\ ServerIdle

EffortDecide ==
    /\ pc = "asked"
    /\ pc' = "decided"
    /\ ret' = determineReasoningEffort(call.input, call.history)
    /\ UNCHANGED <<call, serverVars>>

EffortNext == EffortDecide

SpecEffort == EffortInit /\ [][EffortNext]_vars

(***************************************************************************)
(* C7: determineReasoningEffort returns primary effort 'medium' with retry *)
(* list ['medium'] exactly when the trimmed question matches the           *)
(* comparison/trade-off pattern, or the multi-part pattern, or is a        *)
(* follow-up (length <= 40 or follow-up indicator) that contains an        *)
(* ambiguous pronoun while the history holds at least two user messages;   *)
(* in every other case, a blank question included, it returns 'low' with   *)
(* retry list ['low', 'medium'].                                           *)
(***************************************************************************)
C7_EffortDecisionTable ==
    pc = "decided" =>
        LET q == trim(call.input)
            userMessages == {i \in 1..Len(call.history) : call.history[i].role = "user"}
            medium ==
                \/ COMPARISON_OR_TRADEOFF_PATTERN(q)
                \/ MULTI_PART_PATTERN(q)
                \/ /\ length(q) <= 40 \/ FOLLOW_UP_INDICATOR_PATTERN(q)
                   /\ AMBIGUOUS_FOLLOW_UP_PRONOUN_PATTERN(q)
                   /\ Cardinality(userMessages) >= 2
        IN /\ medium => ret.primaryEffort = "medium" /\ ret.retryEfforts = <<"medium">>
           /\ ~medium => ret.primaryEffort = "low" /\ ret.retryEfforts = <<"low", "medium">>
           /\ length(q) = 0 => ret.primaryEffort = "low"

\* a long question that is medium for the follow-up rule alone
C7_Witness ==
    /\ pc = "decided"
    /\ ret.primaryEffort = "medium"
    /\ ret.reasons = <<"follow_up_ambiguity">>
    /\ length(trim(call.input)) > 40

(***************************************************************************)
(* SpecRank: searchDocumentation and the re-ranking of its results, as     *)
(* runGlobalPaymentsDocsAgent runs them on one reply of the file search.   *)
(***************************************************************************)
tNeither == Str(<<"refunds">>, 30, 0)
tGlobalPayments == Str(<<"global", "payments", "refunds">>, 0, 0)
tRealex == Str(<<"Realex", "refunds">>, 0, 0)
tBoth == Str(<<"realex", "global", "payments">>, 0, 0)
tPayments == Str(<<"payments", "refunds">>, 0, 0)

sPlain == Str(<<"refunds.md">>, 0, 0)
sRealex == Str(<<"realex", "guide.md">>, 0, 0)
sGlobal == Str(<<"docs", "global">>, 0, 0)

RankTexts == {tNeither, tGlobalPayments, tRealex, tBoth, tPayments}
RankSources == {sPlain, sRealex, sGlobal, EmptyStr}
RankLegacy ==
    { [text |-> tNeither, source |-> sPlain], [text |-> tGlobalPayments, source |-> sPlain],
      [text |-> tRealex, source |-> EmptyStr], [text |-> tBoth, source |-> sPlain],
      [text |-> tRealex, source |-> sPlain] }

ApiReply(items, legacy, output_text) ==
    [throws |-> FALSE, items |-> items, legacy |-> legacy, output_text |-> output_text]

ApiThrows == [throws |-> TRUE, items |-> <<>>, legacy |-> <<>>, output_text |-> EmptyStr]

NonEmptySeqsUpTo(S, n) == UNION { [1..k -> S] : k \in 1..n }

TextOnlyReplies ==
    { ApiReply(<<>>, <<>>, t) :
        t \in { EmptyStr, blankStr, tNeither,
                Str(<<"documentation excerpt", "refunds">>, 0, 1),
                Str(<<"10001", "realex", "10002">>, 0, 0),
                Str(<<"10001", "refunds">>, 0, 0) } }

RankReplies ==
    { ApiReply(<<[text |-> t, citations |-> c]>>, <<>>, tNeither) :
        t \in RankTexts, c \in NonEmptySeqsUpTo(RankSources, MaxCitations) }
    \cup { ApiReply(<<[text |-> tRealex, citations |-> <<>>]>>, l, EmptyStr) :
        l \in NonEmptySeqsUpTo(RankLegacy, MaxCitations) }
    \cup { ApiReply(<<[text |-> tRealex, citations |-> <<>>],
                      [text |-> tNeither, citations |-> <<sPlain>>]>>,
                    <<[text |-> tBoth, source |-> sPlain]>>, EmptyStr) }
    \cup TextOnlyReplies
    \cup {ApiThrows}

RankQuestions == {qRefunds, Str(<<"Realex", "refunds", "?">>, 0, 0)}

RankInit ==
    /\ pc = "query"
    /\ call \in [input : RankQuestions, response : RankReplies]
    /\ ret = [docSearchResponse |-> [results |-> <<>>, error |-> NoError],
              scoredCandidates |-> <<>>, sortedCandidates |-> <<>>,
              rankedCandidates |-> <<>>, selectedCandidates |-> <<>>,
              highConfidenceResults |-> <<>>]
    /\ ServerIdle

\* line 275
RankSearch ==
    /\ pc = "query"
    /\ pc' = "searched"
    /\ ret' = [ret EXCEPT !.docSearchResponse = searchDocumentation(call.response)]
    /\ UNCHANGED <<call, serverVars>>

\* line 288-341
RankSelect ==
    /\ pc = "searched"
    /\ pc' = "selected"
    /\ LET ranked == IF Len(ret.docSearchResponse.results) > 0
                     THEN rankedCandidatesOf(ret.docSearchResponse.results) ELSE <<>>
           selected == selectedCandidatesOf(ranked, referencesRealex(call.input))
       IN ret' = [ret EXCEPT !.scoredCandidates = scoredCandidatesOf(ret.docSearchResponse.results),
                             !.sortedCandidates =
                                 SortByScore(scoredCandidatesOf(ret.docSearchResponse.results)),
                             !.rankedCandidates = ranked,
                             !.selectedCandidates = selected,
                             !.highConfidenceResults = highConfidenceResultsOf(selected)]
    /\ UNCHANGED <<call, serverVars>>

RankNext == RankSearch \/ RankSelect

SpecRank == RankInit /\ [][RankNext]_vars

(***************************************************************************)
(* C10 (as stated): the adjusted score of every search result is the raw   *)
(* score multiplied by 2.2 when its text matches the Global Payments       *)
(* pattern, by 0.15 when it matches the Realex pattern without matching    *)
(* Global Payments, by 0.8 when it matches both, and the raw score when it *)
(* matches neither.                                                        *)
(***************************************************************************)
C10_AdjustedScoreAsStated ==
    pc = "selected" =>
        \A k \in 1..Len(ret.scoredCandidates) :
            LET c == ret.scoredCandidates[k]
                text == haystackOf(ret.docSearchResponse.results[k])
                rx == REALEX_PATTERN(text)
                gp == GLOBAL_PAYMENTS_PATTERN(text)
            IN /\ gp /\ ~rx => c.adjustedScore * 10 = c.score * 22
               /\ rx /\ ~gp => c.adjustedScore * 100 = c.score * 15
               /\ rx /\ gp => c.adjustedScore * 10 = c.score * 8
               /\ ~rx /\ ~gp => c.adjustedScore = c.score

(***************************************************************************)
(* C10 (amended): the adjusted score of every search result is the raw     *)
(* score multiplied by 2.2 when its text matches only the Global Payments  *)
(* pattern, by 0.15 when it matches only the Realex pattern, by 2.2 and    *)
(* then by 0.8 (1.76 in all) when it matches both, and the raw score when  *)
(* it matches neither.                                                     *)
(***************************************************************************)
C10_AdjustedScore ==
    pc = "selected" =>
        /\ Len(ret.scoredCandidates) = Len(ret.docSearchResponse.results)
        /\ \A k \in 1..Len(ret.scoredCandidates) :
            LET c == ret.scoredCandidates[k]
                text == haystackOf(ret.docSearchResponse.results[k])
                rx == REALEX_PATTERN(text)
                gp == GLOBAL_PAYMENTS_PATTERN(text)
            IN /\ c.score = ret.docSearchResponse.results[k].score
               /\ gp /\ ~rx => c.adjustedScore * 10 = c.score * 22
               /\ rx /\ ~gp => c.adjustedScore * 100 = c.score * 15
               /\ rx /\ gp => c.adjustedScore * 100 = c.score * 176
               /\ ~rx /\ ~gp => c.adjustedScore = c.score

\* a search that returned a result mentioning both brands and one mentioning only Realex
C10_Witness ==
    /\ pc = "selected"
    /\ \E j, k \in 1..Len(ret.scoredCandidates) :
          /\ ret.scoredCandidates[j].mentionsRealex
          /\ ret.scoredCandidates[j].mentionsGlobalPayments
          /\ ret.scoredCandidates[k].mentionsRealex
          /\ ~ret.scoredCandidates[k].mentionsGlobalPayments

\* the number of positions of list that hold x
CountOf(list, x) == Cardinality({k \in 1..Len(list) : list[k] = x})

\* the scored results that pass both filters of the re-ranking: the threshold, and the
\* exclusion of Realex-only results when the question does not mention Realex
RankPassed ==
    LET passes(c) ==
            /\ c.adjustedScore > MIN_CONTEXT_SCORE
            /\ (REALEX_PATTERN(call.input) \/ ~c.mentionsRealex \/ c.mentionsGlobalPayments)
    IN SelectSeq(ret.scoredCandidates, passes)

\* the results that passed the filters and are not among the selected ones
RankLeftOut ==
    { c \in {RankPassed[k] : k \in 1..Len(RankPassed)} :
        CountOf(RankPassed, c) > CountOf(ret.selectedCandidates, c) }

(***************************************************************************)
(* C11: after re-ranking, results whose adjusted score is below            *)
(* MIN_CONTEXT_SCORE are filtered out and the context is the top 3 of the   *)
(* remaining results by adjusted score: at most three results are          *)
(* selected, all of them results that passed the filters, as many as       *)
(* passed when fewer than three did; every selected result has an adjusted *)
(* score not below the threshold; no result that passed the filters and    *)
(* was left out has a higher adjusted score than a selected one.  The      *)
(* context handed on (highConfidenceResults) is the selection, in order.   *)
(***************************************************************************)
C11_TopThreeAboveThreshold ==
    pc = "selected" =>
        LET selected == ret.selectedCandidates
        IN /\ Len(selected) <= 3
           /\ Len(selected) = (IF Len(RankPassed) < 3 THEN Len(RankPassed) ELSE 3)
           /\ \A k \in 1..Len(selected) :
                 /\ selected[k].adjustedScore >= MIN_CONTEXT_SCORE
                 /\ CountOf(selected, selected[k]) <= CountOf(RankPassed, selected[k])
                 /\ \A c \in RankLeftOut : c.adjustedScore <= selected[k].adjustedScore
           /\ Len(ret.highConfidenceResults) = Len(selected)
           /\ \A k \in 1..Len(selected) :
                 /\ ret.highConfidenceResults[k].content = selected[k].content
                 /\ ret.highConfidenceResults[k].source = selected[k].source
                 /\ ret.highConfidenceResults[k].score = selected[k].score

\* more than three results passed the filters, and one with a lower adjusted score than
\* every selected result was left out
C11_Witness ==
    /\ pc = "selected"
    /\ Len(RankPassed) > 3
    /\ Len(ret.selectedCandidates) = 3
    /\ \E c \in RankLeftOut :
          \A k \in 1..Len(ret.selectedCandidates) :
              c.adjustedScore < ret.selectedCandidates[k].adjustedScore

\* the place of a result among the brand classes: 1 mentions only Global Payments,
\* 2 mentions both brands, 3 mentions neither, 4 mentions only Realex
BrandClass(result) ==
    LET rx == REALEX_PATTERN(haystackOf(result))
        gp == GLOBAL_PAYMENTS_PATTERN(haystackOf(result))
    IN IF gp /\ ~rx THEN 1 ELSE IF gp /\ rx THEN 2 ELSE IF ~rx THEN 3 ELSE 4

(***************************************************************************)
(* C12: re-ranking favors Global Payments content over Realex content:     *)
(* among results with the same positive raw score, a result mentioning     *)
(* only Global Payments ranks ahead of one mentioning both brands, which   *)
(* ranks ahead of one mentioning neither, which ranks ahead of one         *)
(* mentioning only Realex.  Ranking ahead is having the strictly higher    *)
(* adjusted score and standing earlier in the sorted list and in the list  *)
(* that remains after the threshold filter.                                *)
(***************************************************************************)
C12_GlobalPaymentsRanksAhead ==
    pc = "selected" =>
        /\ Len(ret.sortedCandidates) = Len(ret.docSearchResponse.results)
        /\ \A i, j \in 1..Len(ret.sortedCandidates) :
              LET a == ret.sortedCandidates[i]
                  b == ret.sortedCandidates[j]
              IN (a.score = b.score /\ a.score > 0 /\ BrandClass(a) < BrandClass(b)) =>
                    /\ a.adjustedScore > b.adjustedScore
                    /\ i < j
        /\ \A i, j \in 1..Len(ret.rankedCandidates) :
              LET a == ret.rankedCandidates[i]
                  b == ret.rankedCandidates[j]
              IN (a.score = b.score /\ a.score > 0 /\ BrandClass(a) < BrandClass(b)) => i < j

\* a search whose results, given in the opposite order, cover the four brand classes
C12_Witness ==
    /\ pc = "selected"
    /\ Len(ret.docSearchResponse.results) = 4
    /\ \A k \in 1..4 : BrandClass(ret.docSearchResponse.results[k]) = 5 - k
    /\ \A k \in 1..4 : BrandClass(ret.sortedCandidates[k]) = k

(***************************************************************************)
(* C16: Realex-only results (matching the Realex pattern but not the       *)
(* Global Payments pattern) are excluded from the selected context unless  *)
(* the question mentions Realex; when the question does mention Realex,    *)
(* the Realex-only results that searchDocumentation returned are eligible  *)
(* and are selected as context (as far as the three places allow).         *)
(***************************************************************************)
C16_RealexOnlySelectedWhenAsked ==
    pc = "selected" =>
        LET results == ret.docSearchResponse.results
            selected == ret.highConfidenceResults
            asked == REALEX_PATTERN(call.input)
        IN /\ ~asked => \A k \in 1..Len(selected) : BrandClass(selected[k]) # 4
           /\ (asked /\ \E k \in 1..Len(results) : BrandClass(results[k]) = 4) =>
                 \/ \E k \in 1..Len(selected) : BrandClass(selected[k]) = 4
                 \/ Len(selected) = 3

(***************************************************************************)
(* SpecAgent: one run of runGlobalPaymentsDocsAgent, from its call to the  *)
(* resolution of its promise.  The run is held in ret; call holds its      *)
(* arguments.                                                              *)
(***************************************************************************)
qRealex == Str(<<"Realex", "refunds", "?">>, 0, 0)
qCompare == Str(<<"compare", "it">>, 0, 0)
qFollowUp == Str(<<"and", "they", "?">>, 0, 0)

AgentQuestions == {qRefunds, qRealex, qCompare, qFollowUp}

\* the context window POST passes on ends with the question; a direct call passes none
AgentHistories(input) ==
    { <<>>,
      <<Msg("user", input)>>,
      <<Msg("user", qRefunds), Msg("assistant", tNeither), Msg("user", input)>> }

AgentReplies ==
    { ApiReply(<<[text |-> t, citations |-> c]>>, <<>>, tNeither) :
        t \in RankTexts, c \in NonEmptySeqsUpTo({sPlain, sRealex, EmptyStr}, MaxAgentCitations) }
    \cup { ApiReply(<<>>, <<l>>, EmptyStr) : l \in RankLegacy }
    \cup TextOnlyReplies
    \cup {ApiThrows}

answerText == Str(<<"refunds">>, 50, 0)

ModelOutputs ==
    { answerText,
      Str(<<"refunds">>, 50, 1),
      EmptyStr,
      blankStr,
      DOCS_ONLY_NO_MATCH_MESSAGE,
      [DOCS_ONLY_NO_MATCH_MESSAGE EXCEPT !.ws = 1],
      Str(<<"refunds", "Talk about that instead">>, 0, 0),
      Str(<<"switch out of", "the", "documentation context">>, 10, 0),
      Str(<<"i can switch out of", "documentation context">>, 0, 0),
      Str(<<"switch out of", "refunds", "documentation context">>, 0, 0),
      Str(<<"the", "documentation context">>, 0, 0),
      Str(<<"not related to global payments">>, 0, 2) }

ErrorCodes == {"rate_limit_exceeded", "server_error"}

Resolved(output_text) == [throws |-> FALSE, code |-> "", output_text |-> output_text]
Rejected(code) == [throws |-> TRUE, code |-> code, output_text |-> EmptyStr]

AgentInit ==
    /\ pc = "search"
    /\ \E input \in AgentQuestions : \E history \in AgentHistories(input) :
          /\ call = [input |-> input, conversationHistory |-> history]
          /\ ret = agentStart(input, history)
    /\ ServerIdle

\* searchDocumentation resolves (it never rejects: line 622-651)
AgentSearchReplies ==
    /\ ret.pc = "search"
    /\ \E response \in AgentReplies : ret' = agentAfterSearch(ret, response)
    /\ pc' = ret'.pc
    /\ UNCHANGED <<call, serverVars>>

\* the pending generation call resolves
AgentGenerationResolves ==
    /\ ret.pc = "generate"
    /\ \E output_text \in ModelOutputs : ret' = agentAfterGeneration(ret, Resolved(output_text))
    /\ pc' = ret'.pc
    /\ UNCHANGED <<call, serverVars>>

\* the pending generation call rejects
AgentGenerationRejects ==
    /\ ret.pc = "generate"
    /\ \E code \in ErrorCodes : ret' = agentAfterGeneration(ret, Rejected(code))
    /\ pc' = ret'.pc
    /\ UNCHANGED <<call, serverVars>>

AgentNext == AgentSearchReplies \/ AgentGenerationResolves \/ AgentGenerationRejects

SpecAgent == AgentInit /\ [][AgentNext]_vars

AgentEfforts(a) == [i \in 1..Len(a.generationCalls) |-> a.generationCalls[i].effort]

(***************************************************************************)
(* C6: the generation retry is a single escalation from low to medium      *)
(* effort: the sequence of generation attempts of a request is [low],      *)
(* [low, medium] or [medium]; a second attempt is made only after a first  *)
(* attempt at low effort threw or returned the fixed no-match message; the *)
(* result of the second attempt (answer, no-match message or exception) is *)
(* final.                                                                  *)
(***************************************************************************)
AgentRetryIsSingleEscalation(a) ==
    LET calls == a.generationCalls
        last == calls[Len(calls)]
    IN /\ AgentEfforts(a) \in {<<>>, <<"low">>, <<"low", "medium">>, <<"medium">>}
       /\ a.pc = "generate" => calls # <<>> /\ last.outcome = "pending"
       /\ Len(calls) = 2 => calls[1].outcome \in {"threw", "no_match"}
       /\ a.pc = "returned" /\ calls # <<>> =>
            /\ last.outcome \in {"threw", "no_match", "answer"}
            /\ last.outcome = "threw" =>
                  a.result.hasError /\ a.result.response = GENERIC_ERROR_MESSAGE
            /\ last.outcome = "no_match" =>
                  ~a.result.hasError /\ a.result.response = DOCS_ONLY_NO_MATCH_MESSAGE
            /\ last.outcome = "answer" =>
                  /\ ~a.result.hasError
                  /\ a.result.response = enforceDocsOnlyBoundary(a.outputText)
                  /\ a.result.response # DOCS_ONLY_NO_MATCH_MESSAGE
            /\ Len(calls) = 1 /\ last.effort = "low" => last.outcome = "answer"

C6_RetryIsSingleEscalation == AgentRetryIsSingleEscalation(ret)

\* a run whose low attempt returned the no-match message and whose medium attempt returned
\* it again: that reply is final
C6_Witness ==
    /\ ret.pc = "returned"
    /\ AgentEfforts(ret) = <<"low", "medium">>
    /\ ret.generationCalls[1].outcome = "no_match"
    /\ ret.generationCalls[2].outcome = "no_match"
    /\ ret.result.response = DOCS_ONLY_NO_MATCH_MESSAGE

(***************************************************************************)
(* C8: every reply whose text comes from the model is either the fixed     *)
(* no-match message or non-blank text that contains none of the            *)
(* documentation-escape phrases: enforceDocsOnlyBoundary replaces a blank  *)
(* output or an output matching the escape pattern with the no-match       *)
(* message and returns any other output unchanged, and applying it twice   *)
(* gives the same result as applying it once.                              *)
(***************************************************************************)
AgentReplyWithinBoundary(a) ==
    LET resolved == \E i \in 1..Len(a.generationCalls) :
                        a.generationCalls[i].outcome \in {"no_match", "answer"}
        replaced == \/ ~Truthy(trim(a.outputText))
                    \/ DOCS_CONTEXT_ESCAPE_PATTERN(a.outputText)
    IN /\ resolved =>
            /\ replaced => a.attemptText = DOCS_ONLY_NO_MATCH_MESSAGE
            /\ ~replaced => a.attemptText = a.outputText
            /\ enforceDocsOnlyBoundary(a.attemptText) = a.attemptText
       /\ a.pc = "returned" /\ a.result.fullResponse = "object" =>
            \/ a.result.response = DOCS_ONLY_NO_MATCH_MESSAGE
            \/ /\ Truthy(trim(a.result.response))
               /\ ~DOCS_CONTEXT_ESCAPE_PATTERN(a.result.response)
               /\ a.result.response = a.outputText

C8_ReplyWithinBoundary == AgentReplyWithinBoundary(ret)

\* a medium-effort output that offers to leave the documentation context is replaced
C8_Witness ==
    /\ ret.pc = "returned"
    /\ ret.result.fullResponse = "object"
    /\ DOCS_CONTEXT_ESCAPE_PATTERN(ret.outputText)
    /\ Truthy(trim(ret.outputText))
    /\ ret.result.response = DOCS_ONLY_NO_MATCH_MESSAGE

(***************************************************************************)
(* C9: an answer is generated only from grounded context: when no search   *)
(* result is selected as context (the search returned none, or none        *)
(* survived re-ranking and filtering), no generation call is made and the  *)
(* reply is exactly the documentation-unavailable message if the search    *)
(* failed with error type VectorSearchError, and exactly the no-match      *)
(* message otherwise.                                                      *)
(***************************************************************************)
AgentAnswersOnlyFromContext(a) ==
    LET results == a.docSearchResponse.results
        askedRealex == REALEX_PATTERN(a.input)
        eligible == {k \in 1..Len(results) :
                        LET c == rankCandidate(results[k])
                        IN /\ c.adjustedScore > MIN_CONTEXT_SCORE
                           /\ askedRealex \/ ~c.mentionsRealex \/ c.mentionsGlobalPayments}
    IN a.pc # "search" =>
          /\ eligible = {} =>
                /\ a.generationCalls = <<>>
                /\ a.pc = "returned"
                /\ ~a.result.hasError
                /\ a.result.response =
                      IF a.docSearchResponse.error.type = "VectorSearchError"
                      THEN DOCS_ONLY_UNAVAILABLE_MESSAGE ELSE DOCS_ONLY_NO_MATCH_MESSAGE
          /\ a.generationCalls # <<>> => eligible # {} /\ a.highConfidenceResults # <<>>

C9_AnswersOnlyFromContext == AgentAnswersOnlyFromContext(ret)

\* the search returned results, none survived the filters, and the reply is the
\* no-match message without any generation call
C9_Witness ==
    /\ ret.pc = "returned"
    /\ ret.docSearchResponse.results # <<>>
    /\ ret.generationCalls = <<>>
    /\ ret.result.response = DOCS_ONLY_NO_MATCH_MESSAGE

(***************************************************************************)
(* C21: runGlobalPaymentsDocsAgent never rejects: for every combination of *)
(* success or exception of the search call and of each generation call it  *)
(* resolves with an object whose response is a non-empty string, and that  *)
(* object carries an error field exactly when a generation call's          *)
(* exception was the final outcome.  Before it resolves the run awaits the *)
(* search or a generation call, and whatever that call does, the run goes  *)
(* on.                                                                     *)
(***************************************************************************)
C21_AlwaysResolves ==
    LET calls == ret.generationCalls
    IN /\ ret.pc \in {"search", "generate", "returned"}
       /\ ret.pc # "returned" =>
             /\ ret.result = NoResult
             /\ ENABLED AgentNext
       /\ ret.pc = "returned" =>
             /\ length(ret.result.response) > 0
             /\ Truthy(ret.result.response)
             /\ ret.result.hasError <=>
                    (calls # <<>> /\ calls[Len(calls)].outcome = "threw")
             /\ ret.result.hasError => ret.result.errorCode \in ErrorCodes

\* a run whose low attempt threw and whose medium retry threw as well: it resolves with
\* the generic reply and the error
C21_Witness ==
    /\ ret.pc = "returned"
    /\ AgentEfforts(ret) = <<"low", "medium">>
    /\ ret.generationCalls[1].outcome = "threw"
    /\ ret.generationCalls[2].outcome = "threw"
    /\ ret.result.hasError
    /\ ret.result.response = GENERIC_ERROR_MESSAGE

(***************************************************************************)
(* C23: whenever a generation call is made, the documentation search       *)
(* reported no error: every search outcome that carries an error has an    *)
(* empty result list and ends the request before generation, so a reply    *)
(* containing model text never has the "(Note: ...)" suffix appended (its  *)
(* response is the text of the attempt itself) and never carries a         *)
(* vectorSearchError.                                                      *)
(***************************************************************************)
C23_GenerationOnlyAfterCleanSearch ==
    ret.pc # "search" =>
        /\ ret.docSearchResponse.error.type # "" =>
              /\ ret.docSearchResponse.results = <<>>
              /\ ret.generationCalls = <<>>
              /\ ret.pc = "returned"
              /\ ret.result.fullResponse = "null"
        /\ ret.generationCalls # <<>> => ret.docSearchResponse.error = NoError
        /\ ret.result.fullResponse = "object" =>
              /\ ret.result.response = ret.attemptText
              /\ ret.result.response =
                     enforceDocsOnlyBoundary(ret.outputText)
              /\ ~HasWord(ret.result.response, {"(note:"})
              /\ ret.result.vectorSearchError = NoError

\* a run that generated after a search without error and returned the text of the model,
\* without a note and without a vectorSearchError
C23_Witness ==
    /\ ret.pc = "returned"
    /\ ret.generationCalls # <<>>
    /\ ret.docSearchResponse.results # <<>>
    /\ ret.docSearchResponse.error = NoError
    /\ ret.result.fullResponse = "object"
    /\ ret.result.response = answerText
    /\ ret.result.vectorSearchError = NoError

(***************************************************************************)
(* route.ts: POST.  A request is a record that moves from await to await:  *)
(* "idle" before it arrives, "agent" while runGlobalPaymentsDocsAgent is   *)
(* awaited (its run is in the field agent), "done" when the reply is sent  *)
(* (of the run only the text of its last resolved attempt is then kept).   *)
(* The code between two awaits runs without interleaving.  lookup is the   *)
(* branch the cache check took: "miss", "hit" or "expired".                *)
(***************************************************************************)
NoSummary ==
    [truncated |-> FALSE, message |-> "null", keptMessages |-> 0, totalMessages |-> 0,
     maxMessages |-> MAX_CONTEXT_MESSAGES, maxChars |-> MAX_CONTEXT_CHARS, approxTokens |-> 0]

\* line 136-144
contextWindowSummaryOf(contextWindow) ==
    [truncated |-> contextWindow.truncated,
     message |-> IF contextWindow.truncated THEN "CONTEXT_WINDOW_EXPIRED_MESSAGE" ELSE "null",
     keptMessages |-> Len(contextWindow.messages),
     totalMessages |-> contextWindow.totalMessages,
     maxMessages |-> MAX_CONTEXT_MESSAGES,
     maxChars |-> MAX_CONTEXT_CHARS,
     approxTokens |-> (contextWindow.totalChars + 3) \div 4]

\* line 148-150: JSON.stringify({contextMessages}) is one-to-one on the context messages
cacheKeyOf(contextWindow) == contextWindow.messages

NoKey == <<>>

NoReply ==
    [status |-> 0, response |-> EmptyStr, cached |-> FALSE, contextWindow |-> NoSummary,
     vectorStoreError |-> "undefined", error |-> ""]

IdleRequest ==
    [pc |-> "idle", contextWindow |-> NoWindow, cacheKey |-> NoKey, lookup |-> "none",
     agent |-> AgentIdle, agentResponse |-> NoResult, reply |-> NoReply]

\* a cache that serves an entry up to and including the age CACHE_TTL
cacheEntryValid_Inclusive(cachedData, now) ==
    now - cachedData.timestamp <= CACHE_TTL

\* line 156
cacheEntryValid(cachedData, now) ==
    now - cachedData.timestamp < CACHE_TTL

\* a lookup that removes every expired entry of the cache
cacheAfterLookup_Sweep(cache, cacheKey, now) ==
    [k \in {x \in DOMAIN cache : cacheEntryValid(cache[x], now)} |-> cache[k]]

\* line 153-169: the cache after the check of cacheKey
cacheAfterLookup(cache, cacheKey, now) ==
    IF cacheKey \in DOMAIN cache /\ ~cacheEntryValid(cache[cacheKey], now)
    THEN [k \in DOMAIN cache \ {cacheKey} |-> cache[k]]
    ELSE cache

\* line 158-164
cachedReply(cachedData, contextWindowSummary) ==
    [status |-> 200, response |-> cachedData.response, cached |-> TRUE,
     contextWindow |-> cachedData.contextWindow,
     vectorStoreError |-> "undefined", error |-> ""]

\* line 127-130
invalidReply == [NoReply EXCEPT !.status = 400, !.error = "Invalid message format"]

\* line 216-223: req.json() rejected
failedReply == [NoReply EXCEPT !.status = 500, !.error = "Failed to process request"]

\* line 122-176: POST from the arrival of the body to the reply or to the await of the agent
postReceive(body, cache, now) ==
    IF ~body.json
    THEN [req |-> [IdleRequest EXCEPT !.pc = "done", !.reply = failedReply], cache |-> cache]
    ELSE IF invalidMessage(body.message)
    THEN [req |-> [IdleRequest EXCEPT !.pc = "done", !.reply = invalidReply], cache |-> cache]
    ELSE
        LET normalizedMessage == trim(body.message.content)
            normalizedHistory == normalizeConversationMessages(body.messages)
            contextWindow == buildContextWindow(normalizedHistory, normalizedMessage)
            contextWindowSummary == contextWindowSummaryOf(contextWindow)
            cacheKey == cacheKeyOf(contextWindow)
            has == cacheKey \in DOMAIN cache
            base == [IdleRequest EXCEPT !.contextWindow = contextWindow, !.cacheKey = cacheKey]
        IN IF has /\ cacheEntryValid(cache[cacheKey], now)
           THEN [req |-> [base EXCEPT !.pc = "done", !.lookup = "hit",
                                      !.reply = cachedReply(cache[cacheKey], contextWindowSummary)],
                 cache |-> cache]
           ELSE [req |-> [base EXCEPT !.pc = "agent",
                                      !.lookup = IF has THEN "expired" ELSE "miss",
                                      !.agent = agentStart(normalizedMessage,
                                                           contextWindow.messages)],
                 cache |-> cacheAfterLookup(cache, cacheKey, now)]

\* line 180-184: the entry stored for an agent response
cacheEntryOf(agentResponse, contextWindowSummary, now) ==
    [response |-> agentResponse.response,
     vectorSearchError |-> agentResponse.vectorSearchError,
     fullResponse |-> agentResponse.fullResponse,
     contextWindow |-> contextWindowSummary,
     timestamp |-> now]

\* a cache test that looks at the response only
cacheable_AnyResponse(agentResponse) == Truthy(agentResponse.response)

\* line 179
cacheable(agentResponse) == Truthy(agentResponse.response) /\ ~agentResponse.hasError

\* a cache that keeps the entry it already holds for a key
cacheAfterAgent_KeepFirst(cache, cacheKey, agentResponse, contextWindowSummary, now) ==
    IF cacheable(agentResponse) /\ cacheKey \notin DOMAIN cache
    THEN [k \in DOMAIN cache \cup {cacheKey} |->
            IF k = cacheKey THEN cacheEntryOf(agentResponse, contextWindowSummary, now)
            ELSE cache[k]]
    ELSE cache

\* line 178-185
cacheAfterAgent(cache, cacheKey, agentResponse, contextWindowSummary, now) ==
    IF cacheable(agentResponse)
    THEN [k \in DOMAIN cache \cup {cacheKey} |->
            IF k = cacheKey THEN cacheEntryOf(agentResponse, contextWindowSummary, now)
            ELSE cache[k]]
    ELSE cache

\* line 188-197
agentReply(agentResponse, contextWindowSummary) ==
    [status |-> 200, response |-> agentResponse.response, cached |-> FALSE,
     contextWindow |-> contextWindowSummary,
     vectorStoreError |-> IF agentResponse.hasMetadata /\ agentResponse.vectorSearchError.type # ""
                          THEN agentResponse.vectorSearchError.type ELSE "null",
     error |-> ""]

\* line 172-197: POST after a step of the agent: still awaiting it, or caching and replying
postAfterAgent(req, agent, cache, now) ==
    IF agent.pc # "returned"
    THEN [req |-> [req EXCEPT !.agent = agent], cache |-> cache]
    ELSE LET contextWindowSummary == contextWindowSummaryOf(req.contextWindow)
         IN [req |-> [req EXCEPT !.pc = "done",
                                 !.agent = [AgentIdle EXCEPT
                                               !.attemptText = agent.attemptText],
                                 !.agentResponse = agent.result,
                                 !.reply = agentReply(agent.result, contextWindowSummary)],
             cache |-> cacheAfterAgent(cache, req.cacheKey, agent.result,
                                       contextWindowSummary, now)]

(***************************************************************************)
(* Spec: the server process handling MaxRequests chat requests, which      *)
(* arrive at any time; their steps interleave at the awaits and the clock  *)
(* advances between steps.                                                 *)
(***************************************************************************)
Requests == 1..MaxRequests

Body(message, messages) ==
    [json |-> TRUE, message |-> [isStr |-> TRUE, content |-> message], messages |-> messages]

Bodies ==
    { Body(qRefunds, <<>>),
      Body(qRefundsPadded, <<RawMsg("user", qRefunds)>>),
      Body(qRefunds, <<RawMsg("assistant", qExact)>>),
      Body(qRealex, <<>>),
      Body(blankStr, <<>>),
      [Body(qRefunds, <<>>) EXCEPT !.json = FALSE] }

ServerReplies ==
    { ApiThrows,
      ApiReply(<<[text |-> tGlobalPayments, citations |-> <<sPlain>>]>>, <<>>, EmptyStr),
      ApiReply(<<>>, <<>>, tNeither) }

ServerOutputs == {answerText, DOCS_ONLY_NO_MATCH_MESSAGE}

ServerErrorCodes == {"rate_limit_exceeded"}

Init ==
    /\ pc = "server"
    /\ call = <<>>
    /\ ret = <<>>
    /\ clock = 0
    /\ responseCache = <<>>
    /\ reqs = [r \in Requests |-> IdleRequest]

\* Date.now() advances
Tick ==
    /\ \E d \in {CACHE_TTL - 1, CACHE_TTL} :
          /\ clock + d <= MaxClock
          /\ clock' = clock + d
    /\ UNCHANGED <<fnVars, responseCache, reqs>>

\* a request arrives and POST runs up to its reply or to the await of the agent
Receive(r) ==
    /\ reqs[r].pc = "idle"
    /\ \E body \in Bodies :
          LET post == postReceive(body, responseCache, clock)
          IN /\ reqs' = [reqs EXCEPT ![r] = post.req]
             /\ responseCache' = post.cache
    /\ UNCHANGED <<fnVars, clock>>

\* the file search of request r replies
SearchReplies(r) ==
    /\ reqs[r].pc = "agent"
    /\ reqs[r].agent.pc = "search"
    /\ \E response \in ServerReplies :
          LET post == postAfterAgent(reqs[r], agentAfterSearch(reqs[r].agent, response),
                                     responseCache, clock)
          IN /\ reqs' = [reqs EXCEPT ![r] = post.req]
             /\ responseCache' = post.cache
    /\ UNCHANGED <<fnVars, clock>>

\* the pending generation call of request r resolves
GenerationResolves(r) ==
    /\ reqs[r].pc = "agent"
    /\ reqs[r].agent.pc = "generate"
    /\ \E output_text \in ServerOutputs :
          LET post == postAfterAgent(reqs[r],
                                     agentAfterGeneration(reqs[r].agent, Resolved(output_text)),
                                     responseCache, clock)
          IN /\ reqs' = [reqs EXCEPT ![r] = post.req]
             /\ responseCache' = post.cache
    /\ UNCHANGED <<fnVars, clock>>

\* the pending generation call of request r rejects
GenerationRejects(r) ==
    /\ reqs[r].pc = "agent"
    /\ reqs[r].agent.pc = "generate"
    /\ \E code \in ServerErrorCodes :
          LET post == postAfterAgent(reqs[r],
                                     agentAfterGeneration(reqs[r].agent, Rejected(code)),
                                     responseCache, clock)
          IN /\ reqs' = [reqs EXCEPT ![r] = post.req]
             /\ responseCache' = post.cache
    /\ UNCHANGED <<fnVars, clock>>

Next ==
    \/ Tick
    \/ \E r \in Requests : Receive(r)
    \/ \E r \in Requests : SearchReplies(r)
    \/ \E r \in Requests : GenerationResolves(r)
    \/ \E r \in Requests : GenerationRejects(r)

Spec == Init /\ [][Next]_vars

\* request r takes the step from its arrival to its reply or to the await of the agent
Arrives(r) == reqs[r].pc = "idle" /\ reqs'[r].pc # "idle"

\* request r takes the step in which the agent returns and the reply is sent
Completes(r) == reqs[r].pc = "agent" /\ reqs'[r].pc = "done"

(***************************************************************************)
(* C3: a cached reply is served only while less than CACHE_TTL (one hour)  *)
(* has elapsed since it was stored: a lookup that finds an entry aged one  *)
(* hour or more never returns it, deletes that entry, and runs the agent   *)
(* again for the request.                                                  *)
(***************************************************************************)
C3_ExpiredEntryNotServed ==
    [][\A r \in Requests :
        Arrives(r) /\ reqs'[r].cacheKey # NoKey =>
            LET key == reqs'[r].cacheKey
                had == key \in DOMAIN responseCache
                age == clock - responseCache[key].timestamp
            IN /\ had /\ age >= CACHE_TTL =>
                    /\ key \notin DOMAIN responseCache'
                    /\ ~reqs'[r].reply.cached
                    /\ reqs'[r].pc = "agent"
                    /\ reqs'[r].agent.pc = "search"
               /\ reqs'[r].reply.cached =>
                    /\ had /\ age < CACHE_TTL
                    /\ reqs'[r].pc = "done"
                    /\ reqs'[r].reply.response = responseCache[key].response
               /\ had /\ age < CACHE_TTL => reqs'[r].reply.cached
      ]_vars

\* a request found an expired entry, ran the agent again and got a new reply
C3_Witness ==
    \E r \in Requests :
        /\ reqs[r].lookup = "expired"
        /\ reqs[r].pc = "done"
        /\ ~reqs[r].reply.cached
        /\ reqs[r].reply.status = 200

(***************************************************************************)
(* C4: two requests with the same cache key can both miss the cache and    *)
(* both run the agent; when both have completed successfully the cache     *)
(* holds exactly one entry for that key, the one written last: every       *)
(* successful completion stores its own response under the key.            *)
(***************************************************************************)
C4_LastWriterWins ==
    [][\A r \in Requests :
        Completes(r) /\ Truthy(reqs'[r].agentResponse.response)
                     /\ ~reqs'[r].agentResponse.hasError =>
            LET key == reqs[r].cacheKey
            IN /\ key \in DOMAIN responseCache'
               /\ responseCache'[key].response = reqs'[r].reply.response
               /\ responseCache'[key].contextWindow = reqs'[r].reply.contextWindow
               /\ responseCache'[key].timestamp = clock
      ]_vars

\* two requests with the same key both missed the cache, both ran the agent and got
\* different replies; the cache holds the entry of one of them
C4_Witness ==
    \E r1, r2 \in Requests :
        /\ r1 # r2
        /\ reqs[r1].pc = "done" /\ reqs[r2].pc = "done"
        /\ reqs[r1].cacheKey = reqs[r2].cacheKey
        /\ reqs[r1].lookup = "miss" /\ reqs[r2].lookup = "miss"
        /\ ~reqs[r1].agentResponse.hasError /\ ~reqs[r2].agentResponse.hasError
        /\ reqs[r1].reply.response # reqs[r2].reply.response
        /\ reqs[r1].cacheKey \in DOMAIN responseCache
        /\ responseCache[reqs[r1].cacheKey].response = reqs[r2].reply.response

(***************************************************************************)
(* C5: the response cache has no eviction: handling a request with cache   *)
(* key K never removes or modifies the entry of another key K', and an     *)
(* expired entry stays in the map until a request with its own key looks   *)
(* it up.                                                                  *)
(***************************************************************************)
C5_NoEviction ==
    [][\A key \in DOMAIN responseCache :
        (key \notin DOMAIN responseCache' \/ responseCache'[key] # responseCache[key]) =>
            \E r \in Requests :
                /\ reqs'[r] # reqs[r]
                /\ reqs'[r].cacheKey = key
                /\ key \notin DOMAIN responseCache' =>
                      /\ Arrives(r)
                      /\ clock - responseCache[key].timestamp >= CACHE_TTL
      ]_vars

\* an expired entry is still in the cache after a request with another key was handled
\* and cached, an hour or more after that entry was stored
C5_Witness ==
    \E stale, key \in DOMAIN responseCache :
        /\ stale # key
        /\ clock - responseCache[stale].timestamp >= CACHE_TTL
        /\ responseCache[key].timestamp - responseCache[stale].timestamp >= CACHE_TTL

(***************************************************************************)
(* C14: only successful agent responses are cached: a reply produced       *)
(* because the documentation search failed (the documentation-unavailable  *)
(* message) or because generation failed (the generic error reply) is      *)
(* never stored, and no request is served such a reply from the cache.     *)
(***************************************************************************)
C14_FailureRepliesNotCached ==
    /\ \A key \in DOMAIN responseCache :
          responseCache[key].response \notin
              {DOCS_ONLY_UNAVAILABLE_MESSAGE, GENERIC_ERROR_MESSAGE}
    /\ \A r \in Requests :
          reqs[r].reply.cached =>
              reqs[r].reply.response \notin
                  {DOCS_ONLY_UNAVAILABLE_MESSAGE, GENERIC_ERROR_MESSAGE}

(***************************************************************************)
(* C15: rate-limit errors are handled by the chat route: when a call to    *)
(* the hosted model API fails with code rate_limit_exceeded while a chat   *)
(* request is being processed, and that failure ends the run of the        *)
(* agent, POST responds with HTTP status 429.                              *)
(***************************************************************************)
C15_RateLimitGives429 ==
    \A r \in Requests :
        (/\ reqs[r].pc = "done"
         /\ reqs[r].agentResponse.hasError
         /\ reqs[r].agentResponse.errorCode = "rate_limit_exceeded") =>
            reqs[r].reply.status = 429

(***************************************************************************)
(* C19: the contextWindow summary returned with every chat reply           *)
(* (truncated, message, keptMessages, totalMessages) describes the         *)
(* conversation of the request being answered, also when the reply is      *)
(* served from the cache: truncated is true and the 'context window has    *)
(* expired' message is present exactly when that request's conversation    *)
(* had more messages than were kept.                                       *)
(***************************************************************************)
C19_SummaryDescribesRequest ==
    \A r \in Requests :
        (reqs[r].pc = "done" /\ reqs[r].reply.status = 200) =>
            LET summary == reqs[r].reply.contextWindow
                window == reqs[r].contextWindow
            IN /\ summary.keptMessages = Len(window.messages)
               /\ summary.totalMessages = window.totalMessages
               /\ summary.truncated <=> (window.totalMessages > Len(window.messages))
               /\ (summary.message # "null") <=> (window.totalMessages > Len(window.messages))

(***************************************************************************)
(* page.tsx: the chat page (HomePage).  In SpecPage the React state of the *)
(* page is held in ret (chatSessions, activeChatId,                        *)
(* hasLoadedPersistedHistory, isLoading, lastUserMessage) and its          *)
(* environment in call: localStorage, the fetches to /api/chat that have   *)
(* not settled, and the sources of fresh ids and of Date values.  A        *)
(* handler runs on the state of the render it was created in and queues    *)
(* updaters that React applies to the latest state; the effects of a       *)
(* render run when it is committed.  State that only drives the display    *)
(* (showRawApi, contextWindowNotices, isHistoryCollapsed, the formatting   *)
(* cache, time labels, createdAt) is left out: no handler reads it to      *)
(* decide what to send or store.                                           *)
(***************************************************************************)
DEFAULT_CHAT_TITLE == Str(<<"New Chat">>, 0, 0)
DEFAULT_WELCOME_MESSAGE == Str(<<"Hello!">>, 100, 0)
REQUEST_ERROR_MESSAGE == Str(<<"Sorry, I encountered an error">>, 40, 0)

\* type Message (line 1363-1372)
ChatMessage(id, role, content, isError, rawApiResponse) ==
    [id |-> id, role |-> role, content |-> content, isError |-> isError,
     rawApiResponse |-> rawApiResponse]

\* line 1400-1405
createWelcomeMessage(id) == ChatMessage(id, "assistant", DEFAULT_WELCOME_MESSAGE, FALSE, FALSE)

\* line 1407-1416: the session takes the id freshId, its welcome message the next one
createSession(freshId, now) ==
    [id |-> freshId, title |-> DEFAULT_CHAT_TITLE, updatedAt |-> now,
     messages |-> <<createWelcomeMessage(freshId + 1)>>]

\* insertion of x into a list sorted by descending updatedAt, after its equals
RECURSIVE InsertByNewest(_, _)
InsertByNewest(sorted, x) ==
    IF sorted = <<>> THEN <<x>>
    ELSE IF Head(sorted).updatedAt >= x.updatedAt
         THEN <<Head(sorted)>> \o InsertByNewest(Tail(sorted), x)
         ELSE <<x>> \o sorted

\* line 1423-1424: a stable sort, newest updatedAt first
RECURSIVE sortSessionsByNewest(_)
sortSessionsByNewest(sessions) ==
    IF sessions = <<>> THEN <<>>
    ELSE InsertByNewest(sortSessionsByNewest(SubSeq(sessions, 1, Len(sessions) - 1)),
                        sessions[Len(sessions)])

\* line 1426-1437: the trimmed content, cut to 54 characters and "..." when longer
buildChatTitleFromMessage(content) ==
    IF ~Truthy(trim(content)) THEN DEFAULT_CHAT_TITLE
    ELSE IF length(trim(content)) <= 54 THEN trim(content)
    ELSE Str(<<"...">>, 54, 0)

\* a value read from storage that is no object (null, a number, a string)
NoStoredObject ==
    [ok |-> FALSE, id |-> 0, title |-> EmptyStr, updatedAt |-> 0, role |-> "",
     content |-> EmptyStr, isError |-> FALSE, messages |-> <<>>]

\* line 1439-1462: a stored message, or nothing (ok false) for what is no message
sanitizeStoredMessage(message) ==
    IF ~message.ok \/ message.role \notin {"user", "assistant"}
    THEN [ok |-> FALSE, message |-> createWelcomeMessage(0)]
    ELSE [ok |-> TRUE,
          message |-> ChatMessage(message.id, message.role, message.content,
                                  message.isError, FALSE)]

\* line 1464-1491: a stored session, or nothing (ok false) for what is no object
sanitizeStoredSession(session, freshId) ==
    IF ~session.ok THEN [ok |-> FALSE, session |-> createSession(0, 0)]
    ELSE LET sanitized == [k \in 1..Len(session.messages) |->
                              sanitizeStoredMessage(session.messages[k])]
             isMessage(m) == m.ok
             kept == SelectSeq(sanitized, isMessage)
             candidateMessages == [k \in 1..Len(kept) |-> kept[k].message]
         IN [ok |-> TRUE,
             session |->
                 [id |-> IF session.id # 0 THEN session.id ELSE freshId,
                  title |-> IF Truthy(trim(session.title)) THEN trim(session.title)
                            ELSE DEFAULT_CHAT_TITLE,
                  updatedAt |-> session.updatedAt,
                  messages |-> IF Len(candidateMessages) > 0 THEN candidateMessages
                               ELSE <<createWelcomeMessage(freshId + 1)>>]]

\* line 1560-1564: the sessions restored from a parsed array
restoredSessionsOf(parsedSessions, freshId) ==
    LET sanitized == [k \in 1..Len(parsedSessions) |->
                         sanitizeStoredSession(parsedSessions[k], freshId + 2 * (k - 1))]
        isSession(x) == x.ok
        kept == SelectSeq(sanitized, isSession)
    IN sortSessionsByNewest([k \in 1..Len(kept) |-> kept[k].session])

\* the session of chatSessions with the given id, as Array.prototype.find; 0 for none
FindSession(chatSessions, chatId) ==
    IF \E k \in 1..Len(chatSessions) : chatSessions[k].id = chatId
    THEN CHOOSE k \in 1..Len(chatSessions) :
            /\ chatSessions[k].id = chatId
            /\ \A j \in 1..(k - 1) : chatSessions[j].id # chatId
    ELSE 0

NoLastUserMessage == [chatId |-> 0, content |-> EmptyStr]

\* line 1504-1508: the state of the first render
InitialPageState(freshId, now) ==
    [chatSessions |-> <<createSession(freshId, now)>>,
     activeChatId |-> freshId,
     hasLoadedPersistedHistory |-> FALSE,
     isLoading |-> FALSE,
     lastUserMessage |-> NoLastUserMessage]

\* line 1546-1585: the restore effect
restoreEffect(state, storage, freshId) ==
    LET restoredSessions ==
            IF storage.kind = "array" THEN restoredSessionsOf(storage.sessions, freshId)
            ELSE <<>>
        loaded == [state EXCEPT !.hasLoadedPersistedHistory = TRUE]
    IN IF storage.kind \in {"absent", "unparsable", "object"} \/ Len(restoredSessions) = 0
       THEN loaded
       ELSE [loaded EXCEPT
                !.chatSessions = restoredSessions,
                !.activeChatId =
                    IF storage.activeChatId # 0
                       /\ FindSession(restoredSessions, storage.activeChatId) # 0
                    THEN storage.activeChatId
                    ELSE restoredSessions[1].id]

\* line 1594-1598: the sessions without the raw API payloads of their messages
persistableSessionsOf(chatSessions) ==
    [k \in 1..Len(chatSessions) |->
        [ok |-> TRUE, id |-> chatSessions[k].id, title |-> chatSessions[k].title,
         updatedAt |-> chatSessions[k].updatedAt, role |-> "", content |-> EmptyStr,
         isError |-> FALSE,
         messages |->
            [j \in 1..Len(chatSessions[k].messages) |->
                [ok |-> TRUE, id |-> chatSessions[k].messages[j].id, title |-> EmptyStr,
                 updatedAt |-> 0, role |-> chatSessions[k].messages[j].role,
                 content |-> chatSessions[k].messages[j].content,
                 isError |-> chatSessions[k].messages[j].isError, messages |-> <<>>]]]]

\* a persist effect that does not wait for the restore effect
persistEffect_Unguarded(state, storage) ==
    [kind |-> "array", sessions |-> persistableSessionsOf(state.chatSessions),
     activeChatId |-> state.activeChatId]

\* line 1588-1605: the persist effect of a render with the given state
persistEffect(state, storage) ==
    IF ~state.hasLoadedPersistedHistory THEN storage
    ELSE [kind |-> "array", sessions |-> persistableSessionsOf(state.chatSessions),
          activeChatId |-> state.activeChatId]

\* line 1657-1666: the effect that keeps the active selection valid
keepActiveValidEffect(state) ==
    IF Len(state.chatSessions) > 0 /\ FindSession(state.chatSessions, state.activeChatId) = 0
    THEN [state EXCEPT !.activeChatId = state.chatSessions[1].id]
    ELSE state

\* line 1803-1821 and 1892-1905: the updater that appends message to the session chatId,
\* retitles it when asked to, and sorts the sessions
appendToSession(prev, chatId, message, titleFrom, now) ==
    sortSessionsByNewest(
        [k \in 1..Len(prev) |->
            IF prev[k].id # chatId THEN prev[k]
            ELSE LET isUser(m) == m.role = "user"
                     userMessageCount == Len(SelectSeq(prev[k].messages, isUser))
                     shouldUpdateTitle ==
                         /\ Truthy(titleFrom)
                         /\ (prev[k].title = DEFAULT_CHAT_TITLE \/ userMessageCount = 0)
                 IN [prev[k] EXCEPT
                        !.title = IF shouldUpdateTitle
                                  THEN buildChatTitleFromMessage(titleFrom) ELSE @,
                        !.updatedAt = now,
                        !.messages = Append(@, message)]])

\* line 1826-1831: the history sent with the request
historyForRequestOf(targetSession, userMessage) ==
    LET noError(m) == ~m.isError
        kept == SelectSeq(Append(targetSession.messages, userMessage), noError)
    IN [k \in 1..Len(kept) |-> [role |-> kept[k].role, content |-> kept[k].content]]

\* line 1784-1845: handleSendMessage up to the await of fetch.  rendered is the state of
\* the render the handler belongs to, latest the state its updaters are applied to
handleSendMessage(rendered, latest, env, content, chatIdOverride) ==
    LET trimmedContent == trim(content)
        targetChatId == IF chatIdOverride # 0 THEN chatIdOverride ELSE rendered.activeChatId
        found == FindSession(rendered.chatSessions, targetChatId)
        userMessage == ChatMessage(env.nextId, "user", trimmedContent, FALSE, FALSE)
    IN IF ~Truthy(trimmedContent) \/ found = 0
       THEN [state |-> latest, env |-> env]
       ELSE [state |->
                [latest EXCEPT
                    !.lastUserMessage = [chatId |-> targetChatId, content |-> trimmedContent],
                    !.chatSessions = appendToSession(@, targetChatId, userMessage,
                                                     trimmedContent, env.now),
                    !.isLoading = TRUE],
             env |->
                [env EXCEPT
                    !.nextId = @ + 1,
                    !.now = @ + 1,
                    !.inflight = @ \cup
                        {[id |-> userMessage.id, chatId |-> targetChatId,
                          message |-> trimmedContent,
                          messages |-> historyForRequestOf(rendered.chatSessions[found],
                                                           userMessage)]}]]

\* line 1768-1778: the updater of handleRetry
withoutErrorMessages(prev, activeChatId) ==
    LET noError(m) == ~m.isError
    IN [k \in 1..Len(prev) |->
           IF prev[k].id # activeChatId THEN prev[k]
           ELSE [prev[k] EXCEPT !.messages = SelectSeq(@, noError)]]

\* line 1764-1781
handleRetry(rendered, env) ==
    IF rendered.lastUserMessage = NoLastUserMessage
       \/ rendered.lastUserMessage.chatId # rendered.activeChatId
    THEN [state |-> rendered, env |-> env]
    ELSE handleSendMessage(
             rendered,
             [rendered EXCEPT !.chatSessions = withoutErrorMessages(@, rendered.activeChatId)],
             env, rendered.lastUserMessage.content, rendered.activeChatId)

\* line 1847-1940: handleSendMessage after the fetch of request has settled
handleSendMessageSettled(latest, env, request, ok, response) ==
    LET message == IF ok THEN ChatMessage(env.nextId, "assistant", response, FALSE, TRUE)
                   ELSE ChatMessage(env.nextId, "assistant", REQUEST_ERROR_MESSAGE, TRUE, FALSE)
    IN [state |->
            [latest EXCEPT
                !.chatSessions = appendToSession(@, request.chatId, message, EmptyStr, env.now),
                !.isLoading = FALSE],
        env |-> [env EXCEPT !.nextId = @ + 1, !.now = @ + 1, !.inflight = @ \ {request}]]

\* line 1687-1702
handleCreateChat(rendered, env) ==
    IF rendered.isLoading THEN [state |-> rendered, env |-> env]
    ELSE [state |->
             [rendered EXCEPT
                 !.chatSessions = <<createSession(env.nextId, env.now)>> \o @,
                 !.activeChatId = env.nextId,
                 !.lastUserMessage = NoLastUserMessage],
          env |-> [env EXCEPT !.nextId = @ + 2, !.now = @ + 1]]

\* line 1704-1717
handleSelectChat(rendered, env, chatId) ==
    IF rendered.isLoading \/ chatId = rendered.activeChatId
    THEN [state |-> rendered, env |-> env]
    ELSE [state |-> [rendered EXCEPT !.activeChatId = chatId,
                                     !.lastUserMessage = NoLastUserMessage],
          env |-> env]

\* line 1719-1757; shouldDelete is the answer to window.confirm
handleDeleteChat(rendered, env, chatId, shouldDelete) ==
    IF rendered.isLoading \/ FindSession(rendered.chatSessions, chatId) = 0 \/ ~shouldDelete
    THEN [state |-> rendered, env |-> env]
    ELSE LET other(session) == session.id # chatId
             remainingSessions == sortSessionsByNewest(SelectSeq(rendered.chatSessions, other))
             nextSessions == IF Len(remainingSessions) > 0 THEN remainingSessions
                             ELSE <<createSession(env.nextId, env.now)>>
             nextActiveChatId ==
                 IF chatId = rendered.activeChatId
                    \/ FindSession(nextSessions, rendered.activeChatId) = 0
                 THEN nextSessions[1].id ELSE rendered.activeChatId
         IN [state |->
                [rendered EXCEPT
                    !.chatSessions = nextSessions,
                    !.activeChatId = nextActiveChatId,
                    !.lastUserMessage = IF @.chatId = chatId THEN NoLastUserMessage ELSE @],
             env |-> [env EXCEPT !.nextId = IF Len(remainingSessions) > 0 THEN @ ELSE @ + 2,
                                 !.now = @ + 1]]

\* the render that follows a handler: its effects are run (line 1588-1605, 1656-1665)
afterRender(result) ==
    LET state == keepActiveValidEffect(result.state)
    IN [state |-> state,
        env |-> [result.env EXCEPT !.storage = persistEffect(state, @)]]

(***************************************************************************)
(* SpecPage: the chat page from its first render on: the effects of the    *)
(* first render, the render that follows them, and then the actions of     *)
(* the user and the settling of the fetches in any order.                  *)
(***************************************************************************)
StoredMessage(id, role, content, isError) ==
    [NoStoredObject EXCEPT !.ok = TRUE, !.id = id, !.role = role, !.content = content,
                           !.isError = isError]

StoredSession(id, title, updatedAt, messages) ==
    [NoStoredObject EXCEPT !.ok = TRUE, !.id = id, !.title = title,
                           !.updatedAt = updatedAt, !.messages = messages]

Storage(kind, sessions, activeChatId) ==
    [kind |-> kind, sessions |-> sessions, activeChatId |-> activeChatId]

\* a chat saved by an earlier visit: a question and the error it met
storedFailedChat ==
    StoredSession(50, qRefunds, 5,
                  <<StoredMessage(51, "assistant", DEFAULT_WELCOME_MESSAGE, FALSE),
                    StoredMessage(52, "user", qRefunds, FALSE),
                    StoredMessage(53, "assistant", REQUEST_ERROR_MESSAGE, TRUE)>>)

\* an older stored chat whose messages are no messages
storedEmptyChat == StoredSession(60, Str(<<>>, 0, 1), 3, <<NoStoredObject>>)

PageStorages ==
    { Storage("absent", <<>>, 0),
      Storage("unparsable", <<>>, 0),
      Storage("object", <<>>, 0),
      Storage("array", <<>>, 0),
      Storage("array", <<NoStoredObject>>, 50),
      Storage("array", <<storedFailedChat>>, 50),
      Storage("array", <<storedEmptyChat, storedFailedChat>>, 0) }

PageInputs == {qRefunds, qRefundsPadded, qRealex, blankStr}

PageInit ==
    /\ pc = "mounting"
    /\ \E storage \in PageStorages :
          call = [storage |-> storage, inflight |-> {}, nextId |-> 3, now |-> 10]
    /\ ret = InitialPageState(1, 9)
    /\ ServerIdle

ActiveChat == ret.chatSessions[FindSession(ret.chatSessions, ret.activeChatId)]

\* the first render is committed: its restore effect and its persist effect run
MountEffects ==
    /\ pc = "mounting"
    /\ pc' = "hydrating"
    /\ ret' = restoreEffect(ret, call.storage, call.nextId)
    /\ call' = [call EXCEPT !.storage = persistEffect(ret, @),
                            !.nextId = @ + 2 * Len(call.storage.sessions)]
    /\ UNCHANGED serverVars

\* the render with the restored state is committed
Rehydrated ==
    /\ pc = "hydrating"
    /\ pc' = "ready"
    /\ LET result == afterRender([state |-> ret, env |-> call])
       IN ret' = result.state /\ call' = result.env
    /\ UNCHANGED serverVars

\* ChatInput.tsx line 26-32: the user submits the input
Submit ==
    /\ pc = "ready"
    /\ call.nextId + 1 <= MaxIds
    /\ \E message \in PageInputs :
          /\ Truthy(trim(message))
          /\ ~ret.isLoading
          /\ LET result == afterRender(handleSendMessage(ret, ret, call, message, 0))
             IN ret' = result.state /\ call' = result.env
    /\ UNCHANGED <<pc, serverVars>>

\* the user presses 'Try Again' on an error message of the active chat (line 2536-2541)
TryAgain ==
    /\ pc = "ready"
    /\ call.nextId + 1 <= MaxIds
    /\ \E k \in 1..Len(ActiveChat.messages) : ActiveChat.messages[k].isError
    /\ LET result == afterRender(handleRetry(ret, call))
       IN ret' = result.state /\ call' = result.env
    /\ UNCHANGED <<pc, serverVars>>

\* a fetch to /api/chat settles: with a reply, or with a failure (status, network, abort)
FetchSettles ==
    /\ pc = "ready"
    /\ \E request \in call.inflight : \E ok \in BOOLEAN :
          LET result == afterRender(handleSendMessageSettled(ret, call, request, ok, answerText))
          IN ret' = result.state /\ call' = result.env
    /\ UNCHANGED <<pc, serverVars>>

\* ChatHistory.tsx: the buttons of the history panel are disabled while isLoading
CreateChat ==
    /\ pc = "ready"
    /\ ~ret.isLoading
    /\ Len(ret.chatSessions) < MaxChats
    /\ call.nextId + 2 <= MaxIds
    /\ LET result == afterRender(handleCreateChat(ret, call))
       IN ret' = result.state /\ call' = result.env
    /\ UNCHANGED <<pc, serverVars>>

SelectChat ==
    /\ pc = "ready"
    /\ ~ret.isLoading
    /\ \E k \in 1..Len(ret.chatSessions) :
          LET result == afterRender(handleSelectChat(ret, call, ret.chatSessions[k].id))
          IN ret' = result.state /\ call' = result.env
    /\ UNCHANGED <<pc, serverVars>>

DeleteChat ==
    /\ pc = "ready"
    /\ ~ret.isLoading
    /\ call.nextId + 2 <= MaxIds
    /\ \E k \in 1..Len(ret.chatSessions) : \E shouldDelete \in BOOLEAN :
          LET result == afterRender(handleDeleteChat(ret, call, ret.chatSessions[k].id,
                                                     shouldDelete))
          IN ret' = result.state /\ call' = result.env
    /\ UNCHANGED <<pc, serverVars>>

PageNext ==
    \/ MountEffects
    \/ Rehydrated
    \/ Submit
    \/ TryAgain
    \/ FetchSettles
    \/ CreateChat
    \/ SelectChat
    \/ DeleteChat

SpecPage == PageInit /\ [][PageNext]_vars

\* the number of user messages of a list that carry the given content
AsksOf(messages, content) ==
    Cardinality({k \in 1..Len(messages) :
                    messages[k].role = "user" /\ messages[k].content = content})

\* the messages of the chat chatId in the given sessions
MessagesOfChat(chatSessions, chatId) == chatSessions[FindSession(chatSessions, chatId)].messages

\* a step of 'Try Again' that sent the failed question again: no request is pending, the
\* active chat ends with the error message of its last question, the error messages of
\* the active chat are removed and a request is started
RetriesQuestion ==
    /\ pc = "ready"
    /\ call.inflight = {}
    /\ ActiveChat.messages[Len(ActiveChat.messages)].isError
    /\ \E k \in 1..Len(ActiveChat.messages) : ActiveChat.messages[k].isError
    /\ FindSession(ret'.chatSessions, ret.activeChatId) # 0
    /\ \A k \in 1..Len(MessagesOfChat(ret'.chatSessions, ret.activeChatId)) :
          ~MessagesOfChat(ret'.chatSessions, ret.activeChatId)[k].isError
    /\ call'.inflight # call.inflight
    /\ call.inflight \subseteq call'.inflight

(***************************************************************************)
(* C17: after 'Try Again' on a failed message, the error message is        *)
(* removed from the active chat and the failed question is sent again;     *)
(* afterwards the chat's message list and the history sent to the server   *)
(* contain that question once, not twice (given that the chat held it      *)
(* once when it failed).                                                   *)
(***************************************************************************)
C17_RetriedQuestionOnce ==
    [][(RetriesQuestion /\ AsksOf(ActiveChat.messages, ret.lastUserMessage.content) = 1) =>
          \A request \in call'.inflight \ call.inflight :
              /\ request.message = ret.lastUserMessage.content
              /\ AsksOf(MessagesOfChat(ret'.chatSessions, ret.activeChatId),
                        request.message) = 1
              /\ AsksOf(request.messages, request.message) = 1
      ]_vars

(***************************************************************************)
(* C18: chat history is saved only after hydration: no write of the chat   *)
(* sessions to localStorage happens before the attempt to restore the      *)
(* stored sessions has finished (successfully, with nothing stored, or     *)
(* with a parse error), so a stored history is never overwritten by the    *)
(* initial empty session: the first write stores the restored sessions.    *)
(***************************************************************************)
C18_SavedOnlyAfterHydration ==
    [][LET restorable ==
               /\ call.storage.kind = "array"
               /\ \E k \in 1..Len(call.storage.sessions) : call.storage.sessions[k].ok
           idsOf(sessions) == {sessions[k].id : k \in 1..Len(sessions)}
       IN /\ call'.storage # call.storage =>
                 /\ pc # "mounting"
                 /\ ret.hasLoadedPersistedHistory
          /\ pc = "mounting" =>
                 /\ ~ret.hasLoadedPersistedHistory
                 /\ ret'.hasLoadedPersistedHistory
                 /\ restorable =>
                       /\ idsOf(ret.chatSessions) \cap idsOf(ret'.chatSessions) = {}
                       /\ idsOf(ret'.chatSessions) =
                             idsOf(SelectSeq(call.storage.sessions, LAMBDA x : x.ok))
          /\ pc = "hydrating" =>
                 /\ call'.storage.kind = "array"
                 /\ idsOf(call'.storage.sessions) = idsOf(ret.chatSessions)
                 /\ restorable =>
                       idsOf(call'.storage.sessions) =
                           idsOf(SelectSeq(call.storage.sessions, LAMBDA x : x.ok))
      ]_vars

\* the page was loaded over a stored history, and the first write stored the restored
\* sessions: the stored chat without messages now holds the welcome message
C18_Witness ==
    /\ pc = "ready"
    /\ call.storage.kind = "array"
    /\ \E j, k \in 1..Len(call.storage.sessions) :
          /\ call.storage.sessions[j].id = storedFailedChat.id
          /\ call.storage.sessions[k].id = storedEmptyChat.id
          /\ call.storage.sessions[k].title = DEFAULT_CHAT_TITLE
          /\ Len(call.storage.sessions[k].messages) = 1

(***************************************************************************)
(* C20: at most one chat request is in flight at a time: while a request   *)
(* is loading, no action available in the UI (submitting the input, 'Try   *)
(* Again' on a displayed error message, creating, selecting or deleting a  *)
(* chat) starts another request.                                           *)
(***************************************************************************)
C20_OneRequestInFlight ==
    pc = "ready" => Cardinality(call.inflight) <= 1

\* request r awaits the medium-effort generation call that follows a low-effort attempt
\* which returned the no-match message
AwaitsEscalation(r) ==
    /\ reqs[r].pc = "agent"
    /\ reqs[r].agent.pc = "generate"
    /\ AgentEfforts(reqs[r].agent) = <<"low", "medium">>
    /\ reqs[r].agent.generationCalls[1].outcome = "no_match"
    /\ reqs[r].agent.attemptText = DOCS_ONLY_NO_MATCH_MESSAGE

(***************************************************************************)
(* C22: if the first generation attempt at low effort returned the         *)
(* no-match message and the escalated medium attempt throws, the request   *)
(* ends with the generic error reply and an error field; the low           *)
(* attempt's no-match answer is discarded and nothing is cached.           *)
(***************************************************************************)
C22_FailedEscalationNotCached ==
    [][\A r \in Requests :
        (AwaitsEscalation(r) /\ GenerationRejects(r)) =>
            /\ reqs'[r].pc = "done"
            /\ reqs'[r].agentResponse.hasError
            /\ reqs'[r].agentResponse.errorCode \in ServerErrorCodes
            /\ reqs'[r].agentResponse.response = GENERIC_ERROR_MESSAGE
            /\ reqs'[r].reply.response = GENERIC_ERROR_MESSAGE
            /\ reqs'[r].reply.response # DOCS_ONLY_NO_MATCH_MESSAGE
            /\ ~reqs'[r].reply.cached
            /\ responseCache' = responseCache
      ]_vars

\* a request whose low attempt returned the no-match message (the text of its last
\* resolved attempt) and whose medium attempt threw has been answered with the generic
\* error reply, and its key is not in the cache
C22_Witness ==
    \E r \in Requests :
        /\ reqs[r].pc = "done"
        /\ reqs[r].lookup = "miss"
        /\ reqs[r].agentResponse.hasError
        /\ reqs[r].agentResponse.response = GENERIC_ERROR_MESSAGE
        /\ reqs[r].agent.attemptText = DOCS_ONLY_NO_MATCH_MESSAGE
        /\ reqs[r].cacheKey \notin DOMAIN responseCache
        /\ \A other \in Requests \ {r} : reqs[other].pc = "idle"

====
